---- MODULE Spec2Model ----
(***************************************************************************)
(* A model of lazyargo's interactive session engine                        *)
(* (src/internal/ui/model.go): the Bubble Tea transition function          *)
(* Model.Update, the commands it returns, and the completion messages the  *)
(* commands post back into the single event loop.                          *)
(*                                                                         *)
(* The Go value `Model` is the record variable m; Update is the operator   *)
(* Update(mm, msg), which returns the new record and the commands the      *)
(* handler returned.  Text is a sequence of one-character strings, so that *)
(* strings.ToLower, strings.TrimSpace, strings.Contains and the byte       *)
(* order of < are computed and not assumed.  A nil pointer is the empty    *)
(* sequence and a non-nil pointer a one-element sequence; a nil error is   *)
(* the empty string.                                                       *)
(***************************************************************************)
EXTENDS Integers, Sequences, FiniteSets, Bags, TLC

VARIABLES
    m,          \* the Model value held by the event loop
    inflight,   \* the bag of commands issued and not yet completed
    last,       \* the message the last Update call handled
    cmds,       \* the commands the last Update call returned
    syncGen,    \* history: how many times a sync modal was opened so far
    running,    \* FALSE once a handler returned tea.Quit
    streams     \* the log-streaming tasks started so far, in order

vars == <<m, inflight, last, cmds, syncGen, running, streams>>

\* ------------------------------------------------------------------ bounds

\* A handler's commands start only while fewer than this many commands
\* are in flight
MaxInFlight == 2

\* ... in the specifications with many keys (the view, the modals)
MaxInFlightWide == 1

\* Characters a text input holds
MaxText == 2

\* Sync modal openings in a run
MaxSyncOpens == 2

\* -------------------------------------------------------------------- text

\* The characters the model uses, in byte order.
AsciiOrder ==
    <<" ", "A", "B", "C", "D", "E", "F", "G", "H", "I", "J", "K", "L", "M",
      "N", "O", "P", "Q", "R", "S", "T", "U", "V", "W", "X", "Y", "Z",
      "a", "b", "c", "d", "e", "f", "g", "h", "i", "j", "k", "l", "m",
      "n", "o", "p", "q", "r", "s", "t", "u", "v", "w", "x", "y", "z">>

Code(c) == CHOOSE i \in 1..Len(AsciiOrder) : AsciiOrder[i] = c

\* unicode.ToLower on one character: "A".."Z" are the codes 2..27.
LowerChar(c) ==
    IF Code(c) >= 2 /\ Code(c) <= 27 THEN AsciiOrder[Code(c) + 26] ELSE c

\* strings.ToLower
ToLower(s) == [i \in 1..Len(s) |-> LowerChar(s[i])]

IsSpace(c) == c = " "

RECURSIVE TrimLeft(_)
TrimLeft(s) ==
    IF s = <<>> THEN <<>>
    ELSE IF IsSpace(Head(s)) THEN TrimLeft(Tail(s)) ELSE s

RECURSIVE TrimRight(_)
TrimRight(s) ==
    IF s = <<>> THEN <<>>
    ELSE IF IsSpace(s[Len(s)]) THEN TrimRight(SubSeq(s, 1, Len(s) - 1)) ELSE s

\* strings.TrimSpace
TrimSpace(s) == TrimRight(TrimLeft(s))

\* strings.Contains(s, sub)
Contains(s, sub) ==
    \E i \in 0..(Len(s) - Len(sub)) : SubSeq(s, i + 1, i + Len(sub)) = sub

\* The Go string comparison a < b (byte-wise lexicographic).
RECURSIVE StrLess(_, _)
StrLess(a, b) ==
    IF b = <<>> THEN FALSE
    ELSE IF a = <<>> THEN TRUE
    ELSE IF Code(Head(a)) # Code(Head(b)) THEN Code(Head(a)) < Code(Head(b))
    ELSE StrLess(Tail(a), Tail(b))

\* strings.EqualFold on the characters of the model.
EqualFold(a, b) == ToLower(a) = ToLower(b)

Max(a, b) == IF a > b THEN a ELSE b

Min(a, b) == IF a < b THEN a ELSE b

\* clamp(v, lo, hi)
Clamp(v, lo, hi) == IF v < lo THEN lo ELSE IF v > hi THEN hi ELSE v

\* A nil-able pointer: <<>> is nil, <<x>> points at x.
Nil == <<>>

Ptr(x) == <<x>>

\* -------------------------------------------------------------- constants

S_Synced == <<"S", "y", "n", "c", "e", "d">>

S_OutOfSync == <<"O", "u", "t", "O", "f", "S", "y", "n", "c">>

S_Healthy == <<"H", "e", "a", "l", "t", "h", "y">>

S_Degraded == <<"D", "e", "g", "r", "a", "d", "e", "d">>

S_Pod == <<"P", "o", "d">>

S_pod == <<"p", "o", "d">>

S_Service == <<"S", "e", "r", "v", "i", "c", "e">>

S_manual == <<"m", "a", "n", "u", "a", "l">>

S_auto == <<"a", "u", "t", "o">>

S_main == <<"m", "a", "i", "n">>

\* sortMode
sortByName == 0

sortByHealth == 1

sortBySync == 2

\* createStep
createStepName == 0

createStepProject == 1

createStepRepo == 2

createStepPath == 3

createStepRevision == 4

createStepCluster == 5

createStepNamespace == 6

createStepSyncPolicy == 7

createStepConfirm == 8

\* ---------------------------------------------------------- backend data

\* argocd.Resource
Res(kind, name, status) == [Kind |-> kind, Name |-> name, Status |-> status]

\* argocd.Application; Op is OperationState # nil.
App(name, health, sync, op, resources) ==
    [Name |-> name, Health |-> health, Sync |-> sync, Op |-> op,
     SyncPolicy |-> <<>>, RepoURL |-> <<"r">>, Revision |-> <<>>,
     Path |-> <<"p">>, Cluster |-> <<"k">>, Namespace |-> <<"n">>,
     Resources |-> resources]

N_a == <<"a">>

N_ca == <<"c", "a">>

N_B == <<"B">>

PodRes == Res(S_Pod, <<"p">>, S_OutOfSync)

SvcRes == Res(S_Service, <<"s">>, S_Synced)

\* The application lists the backend may answer ListApplications with.
Snapshot1 == <<App(N_ca, S_Degraded, S_OutOfSync, TRUE, <<>>),
               App(N_a, S_Healthy, S_Synced, FALSE, <<>>)>>

Snapshot2 == <<App(N_B, S_Healthy, S_OutOfSync, FALSE, <<>>),
               App(N_a, S_Healthy, S_OutOfSync, FALSE, <<>>),
               App(N_ca, <<>>, S_Synced, FALSE, <<>>)>>

Snapshot3 == <<App(N_a, S_Healthy, S_Synced, FALSE, <<>>)>>

Snapshot4 == <<App(N_a, S_Healthy, S_OutOfSync, TRUE, <<>>)>>

\* A backend: the lists it may answer ListApplications with, whether the
\* applications it describes have an operation in flight and resources,
\* whether its project, repository and cluster lists may be empty, and the
\* errors its calls may fail with.
Backend(snaps, ops, res, empties, errs) ==
    [snaps |-> snaps, ops |-> ops, res |-> res, empties |-> empties, errs |-> errs]

\* What RefreshApplication(name) may answer: the application with its
\* resources, with or without an operation in flight.
DetailsOf(name, env) ==
    {App(name, S_Healthy, S_OutOfSync, op, rs) : op \in env.ops, rs \in env.res}

\* argocd.Revision (its ID); the ids tell the applications apart.
RevisionsOf(name) ==
    IF name = N_a THEN {<<>>, <<[ID |-> 11], [ID |-> 12]>>}
    ELSE {<<[ID |-> 21], [ID |-> 22]>>}

ProjectLists == {<<<<"p">>>>}

RepoLists == {<<<<"r">>>>}

ClusterLists == {<<<<"k">>>>}

\* An error value of the backend; "" is nil.
Errors == {"boom"}

\* --------------------------------------------------------------- widgets

\* textinput.Model: its value and whether it has the focus.
NewTextInput == [value |-> <<>>, focus |-> FALSE]

SetValue(ti, v) == [ti EXCEPT !.value = v]

Focus(ti) == [ti EXCEPT !.focus = TRUE]

Blur(ti) == [ti EXCEPT !.focus = FALSE]

\* The keys that are one printable character.
RuneKeys ==
    {AsciiOrder[i] : i \in 1..Len(AsciiOrder)}

\* textinput.Model.Update on a key: a blurred input ignores it, a
\* character is appended up to the length limit, backspace removes the
\* last character.
TextInputUpdate(ti, k) ==
    IF ~ti.focus THEN ti
    ELSE IF k \in RuneKeys
         THEN IF Len(ti.value) < MaxText
              THEN [ti EXCEPT !.value = Append(ti.value, k)]
              ELSE ti
    ELSE IF k = "backspace"
         THEN IF ti.value = <<>> THEN ti
              ELSE [ti EXCEPT !.value = SubSeq(ti.value, 1, Len(ti.value) - 1)]
    ELSE ti

\* list.Model: its items and the cursor.
NewList == [items |-> <<>>, index |-> 0]

\* list.Model.SetItems followed by Select(0); the cursor of an empty list is
\* kept at 0
ListSetItems(items) == [items |-> items, index |-> 0]

\* list.Model.SelectedItem: nil (<<>>) for an empty list.
SelectedItem(l) ==
    IF l.index >= 0 /\ l.index < Len(l.items) THEN Ptr(l.items[l.index + 1]) ELSE Nil

\* list.Model.Update on a key: the cursor keys.
ListUpdate(l, k) ==
    IF k \in {"up", "k"} THEN [l EXCEPT !.index = Max(0, l.index - 1)]
    ELSE IF k \in {"down", "j"}
         THEN [l EXCEPT !.index = Min(Max(0, Len(l.items) - 1), l.index + 1)]
    ELSE l

\* ---------------------------------------------------------------- Model

\* NewModel: the zero Model with its text inputs and the sort mode.
NewModel ==
    [height |-> 0,
     appsAll |-> <<>>, apps |-> <<>>, selected |-> 0, sidebarOffset |-> 0,
     filterInput |-> NewTextInput, filterActive |-> FALSE, driftOnly |-> FALSE,
     deleteModal |-> FALSE, deleteApp |-> <<>>, deleteCascade |-> FALSE,
     deleteInput |-> NewTextInput,
     createModal |-> FALSE, createStep |-> createStepName,
     createNameInput |-> NewTextInput, createPathInput |-> NewTextInput,
     createNSInput |-> NewTextInput, createRevInput |-> NewTextInput,
     createList |-> NewList,
     createProjects |-> <<>>, createRepos |-> <<>>, createClusters |-> <<>>,
     createProject |-> <<>>, createRepo |-> <<>>, createCluster |-> <<>>,
     createSyncPolicy |-> <<>>, createErr |-> "", createCreating |-> FALSE,
     editModal |-> FALSE, editStep |-> 0, editApp |-> <<>>,
     editRepoInput |-> NewTextInput, editPathInput |-> NewTextInput,
     editRevInput |-> NewTextInput, editClusterIn |-> NewTextInput,
     editNSInput |-> NewTextInput,
     editSyncPolicy |-> <<>>, editErr |-> "", editSaving |-> FALSE,
     sortMode |-> sortByName,
     syncModal |-> FALSE, syncTargets |-> <<>>, syncPreview |-> <<>>,
     syncDryRunComplete |-> FALSE, syncDryRunResults |-> <<>>,
     rollbackModal |-> FALSE, rollbackApp |-> <<>>, rollbackLoading |-> FALSE,
     rollbackErr |-> "", rollbackRevs |-> <<>>, rollbackSelected |-> 0,
     rollbackConfirm |-> FALSE,
     terminateModal |-> FALSE, terminateApp |-> <<>>,
     terminateLoading |-> FALSE, terminateErr |-> "",
     terminateConfirm |-> FALSE,
     focusResources |-> FALSE, resourceSel |-> 0,
     resourceDetails |-> Nil, eventsView |-> Nil, logsView |-> Nil,
     diffView |-> Nil, historyView |-> Nil,
     detail |-> Nil, detailErr |-> "", statusLine |-> "", err |-> "",
     helpShowAll |-> FALSE]

\* ------------------------------------------------------------- commands

refreshCmd == [c |-> "refresh"]

loadDetailCmd(name, hard) == [c |-> "loadDetail", name |-> name, hard |-> hard]

syncBatchCmd(targets, dryRun) ==
    [c |-> "syncBatch", targets |-> targets, dryRun |-> dryRun, gen |-> 0]

loadRevisionsCmd(appName) == [c |-> "loadRevisions", appName |-> appName]

rollbackCmd(appName, id) == [c |-> "rollback", appName |-> appName, id |-> id]

terminateCmd(appName) == [c |-> "terminate", appName |-> appName]

deleteCmd(appName, cascade) ==
    [c |-> "delete", appName |-> appName, cascade |-> cascade]

loadProjectsCmd == [c |-> "loadProjects"]

loadReposCmd == [c |-> "loadRepos"]

loadClustersCmd == [c |-> "loadClusters"]

createAppCmd(app) == [c |-> "createApp", app |-> app]

updateAppCmd(app) == [c |-> "updateApp", app |-> app]

\* tea.Quit
QuitCmd == [c |-> "quit"]

\* The result of a handler: the new Model and the commands it returns.
Ret(mm, cs) == [m |-> mm, cmds |-> cs]

\* tea.KeyMsg
Key(k) == [t |-> "key", k |-> k]

\* ----------------------------------------------------------- projection

S_degraded == <<"d", "e", "g", "r", "a", "d", "e", "d">>

S_missing == <<"m", "i", "s", "s", "i", "n", "g">>

S_suspended == <<"s", "u", "s", "p", "e", "n", "d", "e", "d">>

S_progressing == <<"p", "r", "o", "g", "r", "e", "s", "s", "i", "n", "g">>

S_healthy == <<"h", "e", "a", "l", "t", "h", "y">>

S_outofsync == <<"o", "u", "t", "o", "f", "s", "y", "n", "c">>

S_unknown == <<"u", "n", "k", "n", "o", "w", "n">>

S_synced == <<"s", "y", "n", "c", "e", "d">>

\* The switch of healthRank, on the trimmed and lowered status.
healthRankOf(s) ==
    IF s = S_degraded THEN 0
    ELSE IF s = S_missing THEN 1
    ELSE IF s = S_suspended THEN 2
    ELSE IF s = S_progressing THEN 3
    ELSE IF s = S_healthy THEN 4
    ELSE IF s = <<>> THEN 98
    ELSE 50

\* healthRank of sortApps
healthRank(status) == healthRankOf(TrimSpace(ToLower(status)))

\* The switch of syncRank, on the trimmed and lowered status ("out-of-sync"
\* and "out_of_sync" are not texts of the model's alphabet).
syncRankOf(s) ==
    IF s = S_outofsync THEN 0
    ELSE IF s = S_unknown THEN 1
    ELSE IF s = S_synced THEN 2
    ELSE IF s = <<>> THEN 98
    ELSE 50

\* syncRank of sortApps
syncRank(status) == syncRankOf(TrimSpace(ToLower(status)))

\* A comparison that orders ties by the names as they are, not lowered.
RankLessBytes(ri, rj, a, b) ==
    IF ri # rj THEN ri < rj ELSE StrLess(a.Name, b.Name)

\* The comparison of sortApps once the ranks ri and rj are known.
RankLess(ri, rj, a, b) ==
    IF ri # rj THEN ri < rj ELSE StrLess(ToLower(a.Name), ToLower(b.Name))

\* The less function sortApps hands to sort.SliceStable.
AppLess(mode, a, b) ==
    IF mode = sortByHealth
    THEN RankLess(healthRank(a.Health), healthRank(b.Health), a, b)
    ELSE IF mode = sortBySync
    THEN RankLess(syncRank(a.Sync), syncRank(b.Sync), a, b)
    ELSE RankLess(0, 0, a, b)

\* One step of a stable sort: x goes before the first element it is less
\* than, so after every element it is not less than.
RECURSIVE InsertStable(_, _, _)
InsertStable(mode, sorted, x) ==
    IF sorted = <<>> THEN <<x>>
    ELSE IF AppLess(mode, x, Head(sorted)) THEN <<x>> \o sorted
    ELSE <<Head(sorted)>> \o InsertStable(mode, Tail(sorted), x)

RECURSIVE StableSort(_, _)
StableSort(mode, xs) ==
    IF xs = <<>> THEN <<>>
    ELSE InsertStable(mode, StableSort(mode, SubSeq(xs, 1, Len(xs) - 1)), xs[Len(xs)])

\* A sortApps that leaves the view in the canonical set's order.
sortAppsNone(mm) == mm

\* sortApps: sort.SliceStable of m.apps under the current sort mode.
sortApps(mm) ==
    IF Len(mm.apps) < 2 THEN mm
    ELSE [mm EXCEPT !.apps = StableSort(mm.sortMode, mm.apps)]

\* A filter loop that matches the query against the name as it is.
FilterKeepsCaseSensitive(a, q, driftOnly) ==
    /\ ~(q # <<>> /\ ~Contains(a.Name, q))
    /\ ~(driftOnly /\ a.Sync = S_Synced)

\* A filter loop whose drift-only test keeps the out-of-sync only.
FilterKeepsOnlyOutOfSync(a, q, driftOnly) ==
    /\ ~(q # <<>> /\ ~Contains(ToLower(a.Name), q))
    /\ ~(driftOnly /\ a.Sync # S_OutOfSync)

\* Whether the filter loop of applyFilter keeps application a.
FilterKeeps(a, q, driftOnly) ==
    /\ ~(q # <<>> /\ ~Contains(ToLower(a.Name), q))
    /\ ~(driftOnly /\ a.Sync = S_Synced)

\* The filter loop of applyFilter.
FilterApps(all, q, driftOnly) ==
    SelectSeq(all, LAMBDA a : FilterKeeps(a, q, driftOnly))

\* The index of the first application named name (name is in apps).
IndexOfName(apps, name) ==
    CHOOSE i \in 1..Len(apps) :
        /\ apps[i].Name = name
        /\ \A j \in 1..(i - 1) : apps[j].Name # name

\* applyFilter: the name the selection is to follow ("" for none).
PrevName(mm, keepSelectionByName) ==
    IF keepSelectionByName /\ Len(mm.apps) > 0
       /\ mm.selected >= 0 /\ mm.selected < Len(mm.apps)
    THEN mm.apps[mm.selected + 1].Name
    ELSE <<>>

\* applyFilter: the filtered and sorted view.
FilteredSorted(mm) ==
    sortApps([mm EXCEPT !.apps =
        FilterApps(mm.appsAll, ToLower(TrimSpace(mm.filterInput.value)),
                   mm.driftOnly)])

\* A reselection that does not pull the index back into a shorter view.
ReselectUnclamped(m1, prevName) ==
    IF Len(m1.apps) = 0
    THEN [m1 EXCEPT !.selected = 0, !.detail = Nil, !.detailErr = ""]
    ELSE IF prevName # <<>> /\ \E i \in 1..Len(m1.apps) : m1.apps[i].Name = prevName
    THEN [m1 EXCEPT !.selected = IndexOfName(m1.apps, prevName) - 1]
    ELSE m1

\* A reselection that takes the position of the name found for its index.
ReselectOneBased(m1, prevName) ==
    IF Len(m1.apps) = 0
    THEN [m1 EXCEPT !.selected = 0, !.detail = Nil, !.detailErr = ""]
    ELSE IF prevName # <<>> /\ \E i \in 1..Len(m1.apps) : m1.apps[i].Name = prevName
    THEN [m1 EXCEPT !.selected = IndexOfName(m1.apps, prevName)]
    ELSE IF m1.selected >= Len(m1.apps)
    THEN [m1 EXCEPT !.selected = Max(0, Len(m1.apps) - 1)]
    ELSE m1

\* applyFilter: the selection after the view was recomputed into m1.
Reselect(m1, prevName) ==
    IF Len(m1.apps) = 0
    THEN [m1 EXCEPT !.selected = 0, !.detail = Nil, !.detailErr = ""]
    ELSE IF prevName # <<>> /\ \E i \in 1..Len(m1.apps) : m1.apps[i].Name = prevName
    THEN [m1 EXCEPT !.selected = IndexOfName(m1.apps, prevName) - 1]
    ELSE IF m1.selected >= Len(m1.apps)
    THEN [m1 EXCEPT !.selected = Max(0, Len(m1.apps) - 1)]
    ELSE m1

\* applyFilter(keepSelectionByName)
applyFilter(mm, keepSelectionByName) ==
    Reselect(FilteredSorted(mm), PrevName(mm, keepSelectionByName))

\* A window that follows the selection upwards only.
ensureSidebarSelectionVisibleUpOnly(mm) ==
    IF Len(mm.apps) = 0 THEN [mm EXCEPT !.sidebarOffset = 0]
    ELSE IF mm.height = 0 THEN mm
    ELSE LET visible == Max(1, Max(0, mm.height - 2) - 2)
             o1 == IF mm.selected < mm.sidebarOffset THEN mm.selected
                   ELSE mm.sidebarOffset
         IN [mm EXCEPT !.sidebarOffset =
                 Clamp(o1, 0, Max(0, Len(mm.apps) - visible))]

\* ensureSidebarSelectionVisible
ensureSidebarSelectionVisible(mm) ==
    IF Len(mm.apps) = 0 THEN [mm EXCEPT !.sidebarOffset = 0]
    ELSE IF mm.height = 0 THEN mm
    ELSE LET bodyHeight == Max(0, mm.height - 2)
             visible == Max(1, bodyHeight - 2)
             o1 == IF mm.selected < mm.sidebarOffset THEN mm.selected
                   ELSE mm.sidebarOffset
             o2 == IF mm.selected >= o1 + visible THEN mm.selected - visible + 1
                   ELSE o1
             maxOffset == Max(0, Len(mm.apps) - visible)
         IN [mm EXCEPT !.sidebarOffset = Clamp(o2, 0, maxOffset)]

\* The resources of rs that buildSyncPreview keeps.
RECURSIVE DriftedResources(_)
DriftedResources(rs) ==
    IF rs = <<>> THEN <<>>
    ELSE LET r == Head(rs) IN
         IF TrimSpace(r.Status) # <<>> /\ r.Status # S_Synced
         THEN <<r>> \o DriftedResources(Tail(rs))
         ELSE DriftedResources(Tail(rs))

\* The resources buildSyncPreview looks at for one target.
PreviewSource(mm, name) ==
    IF mm.detail # Nil /\ mm.detail[1].Name = name THEN mm.detail[1].Resources
    ELSE IF \E i \in 1..Len(mm.appsAll) : mm.appsAll[i].Name = name
    THEN mm.appsAll[IndexOfName(mm.appsAll, name)].Resources
    ELSE <<>>

\* buildSyncPreview: the entry of one target, if it has drifted resources.
PreviewEntry(name, out) ==
    IF out = <<>> THEN <<>> ELSE <<[name |-> name, resources |-> out]>>

\* buildSyncPreview: the map, as the list of its entries in target order.
RECURSIVE buildSyncPreview(_, _)
buildSyncPreview(mm, targets) ==
    IF targets = <<>> THEN <<>>
    ELSE PreviewEntry(Head(targets),
                      DriftedResources(PreviewSource(mm, Head(targets))))
             \o buildSyncPreview(mm, Tail(targets))

\* blankIfEmpty
blankIfEmpty(s, fallback) == IF s = <<>> THEN fallback ELSE s

\* resetCreateWizard
resetCreateWizard(mm) ==
    [mm EXCEPT !.createModal = FALSE, !.createStep = createStepName,
               !.createErr = "", !.createCreating = FALSE,
               !.createProject = <<>>, !.createRepo = <<>>,
               !.createCluster = <<>>, !.createSyncPolicy = S_manual,
               !.createNameInput = Blur(@), !.createPathInput = Blur(@),
               !.createNSInput = Blur(@), !.createRevInput = Blur(@),
               !.createList = ListSetItems(<<>>)]

\* setCreateList
setCreateList(mm, items) == [mm EXCEPT !.createList = ListSetItems(items)]

\* resetEditWizard
resetEditWizard(mm) ==
    [mm EXCEPT !.editModal = FALSE, !.editStep = createStepRepo,
               !.editApp = <<>>, !.editErr = "", !.editSaving = FALSE,
               !.editRepoInput = Blur(@), !.editPathInput = Blur(@),
               !.editRevInput = Blur(@), !.editClusterIn = Blur(@),
               !.editNSInput = Blur(@), !.editSyncPolicy = S_manual]

\* --------------------------------------------------- completion messages

\* Update, case appsMsg: the details of the selected application are loaded
\* when the view m2 is not empty.
AutoLoadDetail(m2) ==
    IF Len(m2.apps) > 0
    THEN Ret(m2, <<loadDetailCmd(m2.apps[m2.selected + 1].Name, FALSE)>>)
    ELSE Ret(m2, <<>>)

\* Update, case appsMsg, were the snapshot merged into the canonical set
\* (the applications it does not name kept)
OnAppsMsgMerges(mm, msg) ==
    IF msg.err = ""
    THEN AutoLoadDetail(
             [ensureSidebarSelectionVisible(
                  applyFilter([mm EXCEPT !.err = msg.err, !.detail = Nil,
                                         !.detailErr = "",
                                         !.appsAll =
                                             msg.apps \o SelectSeq(@, LAMBDA a :
                                                 \A i \in 1..Len(msg.apps) :
                                                     msg.apps[i].Name # a.Name)],
                              FALSE))
                 EXCEPT !.statusLine = "loaded apps"])
    ELSE Ret([mm EXCEPT !.err = msg.err, !.detail = Nil, !.detailErr = "",
                        !.statusLine = "failed to load apps"], <<>>)

\* Update, case appsMsg
OnAppsMsg(mm, msg) ==
    IF msg.err = ""
    THEN AutoLoadDetail(
             [ensureSidebarSelectionVisible(
                  applyFilter([mm EXCEPT !.err = msg.err, !.detail = Nil,
                                         !.detailErr = "",
                                         !.appsAll = msg.apps], FALSE))
                 EXCEPT !.statusLine = "loaded apps"])
    ELSE Ret([mm EXCEPT !.err = msg.err, !.detail = Nil, !.detailErr = "",
                        !.statusLine = "failed to load apps"], <<>>)

\* Update, case detailMsg
OnDetailMsg(mm, msg) ==
    LET m0 == [mm EXCEPT !.detailErr = msg.err] IN
    IF msg.err = ""
    THEN Ret([m0 EXCEPT !.detail = Ptr(msg.app),
                        !.statusLine = "loaded details",
                        !.resourceSel =
                            IF @ >= Len(msg.app.Resources)
                            THEN Max(0, Len(msg.app.Resources) - 1) ELSE @],
             <<>>)
    ELSE Ret([m0 EXCEPT !.detail = Nil, !.statusLine = "failed to load details"],
             <<>>)

\* Update, case syncBatchMsg
OnSyncBatchMsg(mm, msg) ==
    IF msg.dryRun
    THEN Ret([mm EXCEPT !.syncDryRunComplete = TRUE,
                        !.syncDryRunResults = msg.results,
                        !.statusLine = "dry-run complete (y=sync, n=cancel)"],
             <<>>)
    ELSE Ret([mm EXCEPT !.syncModal = FALSE, !.syncTargets = <<>>,
                        !.syncPreview = <<>>, !.syncDryRunComplete = FALSE,
                        !.syncDryRunResults = <<>>,
                        !.statusLine = "sync finished"],
             <<refreshCmd>>)

\* Update, case revisionsMsg
OnRevisionsMsg(mm, msg) ==
    LET m0 == [mm EXCEPT !.rollbackLoading = FALSE, !.rollbackErr = msg.err] IN
    IF msg.err = ""
    THEN Ret([m0 EXCEPT !.rollbackRevs = msg.revisions, !.rollbackSelected = 0,
                        !.rollbackConfirm = FALSE,
                        !.statusLine = "loaded revisions"],
             <<>>)
    ELSE Ret([m0 EXCEPT !.rollbackRevs = <<>>,
                        !.statusLine = "failed to load revisions"],
             <<>>)

\* Update, case rollbackMsg
OnRollbackMsg(mm, msg) ==
    IF msg.err # ""
    THEN Ret([mm EXCEPT !.rollbackErr = msg.err, !.statusLine = "rollback failed"],
             <<>>)
    ELSE Ret([mm EXCEPT !.rollbackModal = FALSE, !.rollbackApp = <<>>,
                        !.rollbackLoading = FALSE, !.rollbackErr = "",
                        !.rollbackRevs = <<>>, !.rollbackConfirm = FALSE,
                        !.statusLine = "rollback started"],
             <<refreshCmd>>)

\* Update, case terminateMsg
OnTerminateMsg(mm, msg) ==
    LET m0 == [mm EXCEPT !.terminateLoading = FALSE, !.terminateErr = msg.err] IN
    IF msg.err # ""
    THEN Ret([m0 EXCEPT !.statusLine = "terminate failed"], <<>>)
    ELSE Ret([m0 EXCEPT !.terminateModal = FALSE, !.terminateApp = <<>>,
                        !.terminateConfirm = FALSE,
                        !.statusLine = "operation terminated"],
             <<refreshCmd>>)

\* Update, case deleteMsg
OnDeleteMsg(mm, msg) ==
    IF msg.err # ""
    THEN Ret([mm EXCEPT !.statusLine = "delete failed", !.err = msg.err], <<>>)
    ELSE Ret([mm EXCEPT !.deleteModal = FALSE, !.deleteApp = <<>>,
                        !.deleteCascade = FALSE,
                        !.deleteInput = Blur(SetValue(@, <<>>)),
                        !.statusLine = "application deleted"],
             <<refreshCmd>>)

\* Update, case projectsMsg
OnProjectsMsg(mm, msg) ==
    Ret([mm EXCEPT !.createErr = msg.err,
                   !.createProjects = IF msg.err = "" THEN msg.items ELSE @],
        <<>>)

\* Update, case reposMsg
OnReposMsg(mm, msg) ==
    Ret([mm EXCEPT !.createErr = msg.err,
                   !.createRepos = IF msg.err = "" THEN msg.items ELSE @],
        <<>>)

\* Update, case clustersMsg
OnClustersMsg(mm, msg) ==
    Ret([mm EXCEPT !.createErr = msg.err,
                   !.createClusters = IF msg.err = "" THEN msg.items ELSE @],
        <<>>)

\* Update, case createMsg
OnCreateMsg(mm, msg) ==
    LET m0 == [mm EXCEPT !.createCreating = FALSE] IN
    IF msg.err # ""
    THEN Ret([m0 EXCEPT !.createErr = msg.err, !.statusLine = "create failed"],
             <<>>)
    ELSE Ret([resetCreateWizard(m0) EXCEPT !.statusLine = "application created"],
             <<refreshCmd>>)

\* Update, case updateMsg
OnUpdateMsg(mm, msg) ==
    LET m0 == [mm EXCEPT !.editSaving = FALSE] IN
    IF msg.err # ""
    THEN Ret([m0 EXCEPT !.editErr = msg.err, !.statusLine = "update failed"],
             <<>>)
    ELSE Ret([resetEditWizard(m0) EXCEPT !.statusLine = "application updated"],
             <<refreshCmd>>)

\* Update, case tea.WindowSizeMsg (the overlays' sizes are not modelled)
OnWindowSizeMsg(mm, msg) ==
    Ret(ensureSidebarSelectionVisible([mm EXCEPT !.height = msg.height]), <<>>)

\* --------------------------------------------------------------- overlays

\* newResourceDetailsModel
newResourceDetailsModel(appName, ref) ==
    [appName |-> appName, ref |-> ref, loading |-> TRUE, err |-> ""]

\* newEventsModel
newEventsModel(appName) == [app |-> appName, loading |-> TRUE, err |-> ""]

\* newDiffModel
newDiffModel(appName, filter) ==
    [app |-> appName, filter |-> filter, loading |-> TRUE, err |-> ""]

\* newHistoryModel
newHistoryModel(app) == [app |-> app.Name, selected |-> 0]

\* newLogsModel
newLogsModel(appName, podName) ==
    [appName |-> appName, podName |-> podName, follow |-> TRUE,
     streamOn |-> FALSE, streamCancel |-> Nil, lines |-> <<>>, err |-> ""]

\* resourceDetailsModel.Update, eventsModel.Update and diffModel.Update on
\* their loaded message: loading ends, the error (or nil) is kept with the
\* data.  (Model.Update hands the overlays keys and resizes only.)
overlayLoaded(ov, msg) == [ov EXCEPT !.loading = FALSE, !.err = msg.err]

resourceDetailsInitCmd(rd) ==
    [c |-> "resourceDetailsInit", appName |-> rd.appName, ref |-> rd.ref]

eventsInitCmd(ev) == [c |-> "eventsInit", app |-> ev.app]

diffInitCmd(dv) == [c |-> "diffInit", app |-> dv.app]

\* logsModel.startStreamCmd and waitStreamMsgCmd, as initCmd batches them
logsStartStreamCmd(lv) ==
    [c |-> "logsStartStream", appName |-> lv.appName, podName |-> lv.podName]

logsWaitStreamMsgCmd(lv) ==
    [c |-> "logsWaitStreamMsg", appName |-> lv.appName, podName |-> lv.podName]

\* logsModel.Update on a message of the stream: a line is appended and the
\* next message requested, an error is kept, the end of the stream clears
\* the stream flag.  (Model.Update hands the overlay keys and resizes only.)
logsUpdateMsg(lv, msg) ==
    IF msg.t = "logLineMsg"
    THEN Ret([lv EXCEPT !.lines = Append(@, msg)], <<logsWaitStreamMsgCmd(lv)>>)
    ELSE IF msg.t = "logErrMsg" THEN Ret([lv EXCEPT !.err = "err"], <<>>)
    ELSE IF msg.t = "logDoneMsg" THEN Ret([lv EXCEPT !.streamOn = FALSE], <<>>)
    ELSE Ret(lv, <<>>)

\* logsModel.Update on a key: f toggles follow and restarts a stopped stream.
logsUpdateKey(lv, k) ==
    IF k = "f"
    THEN LET l1 == [lv EXCEPT !.follow = ~@] IN
         IF l1.follow /\ ~l1.streamOn
         THEN Ret([l1 EXCEPT !.streamOn = TRUE, !.streamCancel = Ptr("cancel")],
                  <<logsStartStreamCmd(l1), logsWaitStreamMsgCmd(l1)>>)
         ELSE Ret(l1, <<>>)
    ELSE Ret(lv, <<>>)

\* Update, case tea.KeyMsg while an overlay is open: esc and q close it, any
\* other key goes to the overlay.
OverlayKeys(mm, k) ==
    IF mm.resourceDetails # Nil
    THEN IF k \in {"esc", "q"}
         THEN Ret([mm EXCEPT !.resourceDetails = Nil,
                             !.statusLine = "closed resource view"], <<>>)
         ELSE Ret(mm, <<>>)
    ELSE IF mm.eventsView # Nil
    THEN IF k \in {"esc", "q"}
         THEN Ret([mm EXCEPT !.eventsView = Nil, !.statusLine = "closed events"],
                  <<>>)
         ELSE Ret(mm, <<>>)
    ELSE IF mm.logsView # Nil
    THEN IF k \in {"esc", "q"}
         THEN Ret([mm EXCEPT !.logsView = Nil, !.statusLine = "closed logs"], <<>>)
         ELSE LET r == logsUpdateKey(mm.logsView[1], k) IN
              Ret([mm EXCEPT !.logsView = Ptr(r.m)], r.cmds)
    ELSE IF mm.diffView # Nil
    THEN IF k \in {"esc", "q"}
         THEN Ret([mm EXCEPT !.diffView = Nil, !.statusLine = "closed diff"], <<>>)
         ELSE Ret(mm, <<>>)
    ELSE \* historyView
         IF k \in {"esc", "q"}
         THEN Ret([mm EXCEPT !.historyView = Nil, !.statusLine = "closed history"],
                  <<>>)
         ELSE IF k = "enter"
         THEN Ret([mm EXCEPT !.statusLine = "revision details not implemented yet"],
                  <<>>)
         ELSE Ret(mm, <<>>)

AnyOverlay(mm) ==
    \/ mm.resourceDetails # Nil
    \/ mm.eventsView # Nil
    \/ mm.logsView # Nil
    \/ mm.diffView # Nil
    \/ mm.historyView # Nil

\* ----------------------------------------------------------------- modals

\* The acceptance test of the delete modal's enter key.
DeleteConfirmed(mm) == TrimSpace(mm.deleteInput.value) = mm.deleteApp

\* Update, case tea.KeyMsg while deleteModal
DeleteModalKeys(mm, k) ==
    IF k = "esc"
    THEN Ret([mm EXCEPT !.deleteModal = FALSE, !.deleteApp = <<>>,
                        !.deleteCascade = FALSE,
                        !.deleteInput = Blur(SetValue(@, <<>>)),
                        !.statusLine = "delete cancelled"], <<>>)
    ELSE IF k = "c"
    THEN Ret([mm EXCEPT !.deleteCascade = ~@], <<>>)
    ELSE IF k = "enter"
    THEN IF ~DeleteConfirmed(mm)
         THEN Ret([mm EXCEPT !.statusLine = "type the exact app name to confirm"],
                  <<>>)
         ELSE Ret([mm EXCEPT !.statusLine = "deleting"],
                  <<deleteCmd(mm.deleteApp, mm.deleteCascade)>>)
    ELSE Ret([mm EXCEPT !.deleteInput = TextInputUpdate(@, k)], <<>>)

\* A sync modal whose y key is not gated on the dry run.
SyncConfirmUngated(mm) == mm.syncModal

\* The guard of the sync modal's y key.
SyncConfirmAllowed(mm) == mm.syncDryRunComplete

\* Update, case tea.KeyMsg while syncModal
SyncModalKeys(mm, k) ==
    IF k \in {"esc", "n"}
    THEN Ret([mm EXCEPT !.syncModal = FALSE, !.syncTargets = <<>>,
                        !.syncPreview = <<>>, !.syncDryRunComplete = FALSE,
                        !.syncDryRunResults = <<>>,
                        !.statusLine = "sync cancelled"], <<>>)
    ELSE IF k = "y"
    THEN IF ~SyncConfirmAllowed(mm) THEN Ret(mm, <<>>)
         ELSE Ret([mm EXCEPT !.statusLine = "syncing"],
                  <<syncBatchCmd(mm.syncTargets, FALSE)>>)
    ELSE Ret(mm, <<>>)

\* A terminate modal whose y key does not ask for the arming.
TerminateConfirmUnarmed(mm) == ~mm.terminateLoading

\* The guard of the terminate modal's y key.
TerminateConfirmAllowed(mm) == mm.terminateConfirm /\ ~mm.terminateLoading

\* Update, case tea.KeyMsg while terminateModal
TerminateModalKeys(mm, k) ==
    IF k \in {"esc", "n"}
    THEN Ret([mm EXCEPT !.terminateModal = FALSE, !.terminateApp = <<>>,
                        !.terminateLoading = FALSE, !.terminateErr = "",
                        !.terminateConfirm = FALSE,
                        !.statusLine = "terminate cancelled"], <<>>)
    ELSE IF k = "enter"
    THEN IF mm.terminateLoading THEN Ret(mm, <<>>)
         ELSE Ret([mm EXCEPT !.terminateConfirm = TRUE,
                             !.statusLine = "confirm terminate with y"], <<>>)
    ELSE IF k = "y"
    THEN IF ~TerminateConfirmAllowed(mm) THEN Ret(mm, <<>>)
         ELSE Ret([mm EXCEPT !.terminateLoading = TRUE,
                             !.statusLine = "terminating operation"],
                  <<terminateCmd(mm.terminateApp)>>)
    ELSE Ret(mm, <<>>)

\* The rollback modal's cursor keys: a move de-arms the confirmation.
RollbackCursorUp(mm) ==
    IF mm.rollbackSelected > 0
    THEN [mm EXCEPT !.rollbackSelected = @ - 1, !.rollbackConfirm = FALSE]
    ELSE mm

\* A cursor move that leaves the confirmation armed.
RollbackCursorDownArmed(mm) ==
    IF mm.rollbackSelected < Len(mm.rollbackRevs) - 1
    THEN [mm EXCEPT !.rollbackSelected = @ + 1]
    ELSE mm

RollbackCursorDown(mm) ==
    IF mm.rollbackSelected < Len(mm.rollbackRevs) - 1
    THEN [mm EXCEPT !.rollbackSelected = @ + 1, !.rollbackConfirm = FALSE]
    ELSE mm

\* The guard of the rollback modal's y key.
RollbackConfirmAllowed(mm) ==
    ~(~mm.rollbackConfirm \/ Len(mm.rollbackRevs) = 0 \/ mm.rollbackLoading)

\* Update, case tea.KeyMsg while rollbackModal
RollbackModalKeys(mm, k) ==
    IF k \in {"esc", "n"}
    THEN Ret([mm EXCEPT !.rollbackModal = FALSE, !.rollbackApp = <<>>,
                        !.rollbackLoading = FALSE, !.rollbackErr = "",
                        !.rollbackRevs = <<>>, !.rollbackConfirm = FALSE,
                        !.statusLine = "rollback cancelled"], <<>>)
    ELSE IF k \in {"up", "k"} THEN Ret(RollbackCursorUp(mm), <<>>)
    ELSE IF k \in {"down", "j"} THEN Ret(RollbackCursorDown(mm), <<>>)
    ELSE IF k = "enter"
    THEN IF Len(mm.rollbackRevs) = 0 \/ mm.rollbackLoading THEN Ret(mm, <<>>)
         ELSE Ret([mm EXCEPT !.rollbackConfirm = TRUE,
                             !.statusLine = "confirm rollback with y"], <<>>)
    ELSE IF k = "y"
    THEN IF ~RollbackConfirmAllowed(mm) THEN Ret(mm, <<>>)
         ELSE Ret([mm EXCEPT !.rollbackLoading = TRUE,
                             !.statusLine = "rolling back"],
                  <<rollbackCmd(mm.rollbackApp,
                                mm.rollbackRevs[mm.rollbackSelected + 1].ID)>>)
    ELSE Ret(mm, <<>>)

\* ---------------------------------------------------------------- wizards

\* The argocd.Application the create wizard submits.
CreateSpec(mm) ==
    [Name |-> TrimSpace(mm.createNameInput.value),
     Project |-> TrimSpace(mm.createProject),
     RepoURL |-> TrimSpace(mm.createRepo),
     Path |-> TrimSpace(mm.createPathInput.value),
     Revision |-> TrimSpace(blankIfEmpty(mm.createRevInput.value, S_main)),
     Cluster |-> TrimSpace(mm.createCluster),
     Namespace |-> TrimSpace(mm.createNSInput.value),
     SyncPolicy |-> mm.createSyncPolicy]

\* updateCreateWizard, the enter key on a list step
CreateListEnter(mm) ==
    LET it == SelectedItem(mm.createList) IN
    IF it = Nil THEN mm
    ELSE LET sel == it[1] IN
         IF mm.createStep = createStepProject
         THEN setCreateList([mm EXCEPT !.createProject = sel,
                                       !.createStep = createStepRepo],
                            mm.createRepos)
         ELSE IF mm.createStep = createStepRepo
         THEN [mm EXCEPT !.createRepo = sel, !.createStep = createStepPath,
                         !.createPathInput = Focus(@)]
         ELSE IF mm.createStep = createStepCluster
         THEN [mm EXCEPT !.createCluster = sel, !.createStep = createStepNamespace,
                         !.createNSInput = Focus(@)]
         ELSE [mm EXCEPT !.createSyncPolicy = ToLower(sel),
                         !.createStep = createStepConfirm]

\* A back-step that forgets the value chosen on the step it returns to.
CreateBackStepForgets(mm) ==
    IF mm.createStep > createStepName
    THEN [mm EXCEPT !.createStep = @ - 1, !.createErr = "",
                    !.createProject = IF mm.createStep = createStepRepo
                                      THEN <<>> ELSE @]
    ELSE mm

\* updateCreateWizard, the left key
CreateBackStep(mm) ==
    IF mm.createStep > createStepName
    THEN [mm EXCEPT !.createStep = @ - 1, !.createErr = ""]
    ELSE mm

\* updateCreateWizard
updateCreateWizard(mm, k) ==
    IF k = "esc"
    THEN Ret([resetCreateWizard(mm) EXCEPT !.statusLine = "create cancelled"], <<>>)
    ELSE IF k = "left" THEN Ret(CreateBackStep(mm), <<>>)
    ELSE IF mm.createStep = createStepName
    THEN IF k = "enter"
         THEN Ret(setCreateList([mm EXCEPT !.createProject = <<>>,
                                           !.createStep = createStepProject,
                                           !.createNameInput = Blur(@)],
                                mm.createProjects), <<>>)
         ELSE Ret([mm EXCEPT !.createNameInput = TextInputUpdate(@, k)], <<>>)
    ELSE IF mm.createStep \in {createStepProject, createStepRepo,
                               createStepCluster, createStepSyncPolicy}
    THEN IF k = "enter" THEN Ret(CreateListEnter(mm), <<>>)
         ELSE Ret([mm EXCEPT !.createList = ListUpdate(@, k)], <<>>)
    ELSE IF mm.createStep = createStepPath
    THEN IF k = "enter"
         THEN Ret(setCreateList([mm EXCEPT !.createPathInput = Blur(@),
                                           !.createStep = createStepCluster],
                                mm.createClusters), <<>>)
         ELSE Ret([mm EXCEPT !.createPathInput = TextInputUpdate(@, k)], <<>>)
    ELSE IF mm.createStep = createStepNamespace
    THEN IF k = "enter"
         THEN Ret(setCreateList([mm EXCEPT !.createNSInput = Blur(@),
                                           !.createStep = createStepSyncPolicy],
                                <<S_manual, S_auto>>), <<>>)
         ELSE Ret([mm EXCEPT !.createNSInput = TextInputUpdate(@, k)], <<>>)
    ELSE IF mm.createStep = createStepConfirm
    THEN IF k = "y"
         THEN IF mm.createCreating THEN Ret(mm, <<>>)
              ELSE Ret([mm EXCEPT !.createCreating = TRUE,
                                  !.statusLine = "creating"],
                       <<createAppCmd(CreateSpec(mm))>>)
         ELSE IF k = "n"
         THEN Ret([resetCreateWizard(mm) EXCEPT !.statusLine = "create cancelled"],
                  <<>>)
         ELSE Ret(mm, <<>>)
    ELSE Ret(mm, <<>>)

\* The argocd.Application the edit wizard submits.
EditSpec(mm) ==
    [Name |-> mm.editApp,
     Project |-> <<>>,
     RepoURL |-> TrimSpace(mm.editRepoInput.value),
     Path |-> TrimSpace(mm.editPathInput.value),
     Revision |-> TrimSpace(blankIfEmpty(mm.editRevInput.value, S_main)),
     Cluster |-> TrimSpace(mm.editClusterIn.value),
     Namespace |-> TrimSpace(mm.editNSInput.value),
     SyncPolicy |-> mm.editSyncPolicy]

\* The closure focus of updateEditWizard: only the input of step has the focus.
EditFocus(mm, step) ==
    [mm EXCEPT
        !.editRepoInput = IF step = createStepRepo THEN Focus(@) ELSE Blur(@),
        !.editPathInput = IF step = createStepPath THEN Focus(@) ELSE Blur(@),
        !.editRevInput = IF step = createStepRevision THEN Focus(@) ELSE Blur(@),
        !.editClusterIn = IF step = createStepCluster THEN Focus(@) ELSE Blur(@),
        !.editNSInput = IF step = createStepNamespace THEN Focus(@) ELSE Blur(@)]

\* updateEditWizard
updateEditWizard(mm, k) ==
    IF k = "esc"
    THEN Ret([resetEditWizard(mm) EXCEPT !.statusLine = "edit cancelled"], <<>>)
    ELSE IF k = "left"
    THEN IF mm.editStep > createStepRepo
         THEN Ret([mm EXCEPT !.editStep = @ - 1, !.editErr = ""], <<>>)
         ELSE Ret(mm, <<>>)
    ELSE IF mm.editStep = createStepRepo
    THEN IF k = "enter"
         THEN Ret(EditFocus([mm EXCEPT !.editStep = createStepPath],
                            createStepPath), <<>>)
         ELSE Ret([mm EXCEPT !.editRepoInput = TextInputUpdate(@, k)], <<>>)
    ELSE IF mm.editStep = createStepPath
    THEN IF k = "enter"
         THEN Ret(EditFocus([mm EXCEPT !.editStep = createStepRevision],
                            createStepRevision), <<>>)
         ELSE Ret([mm EXCEPT !.editPathInput = TextInputUpdate(@, k)], <<>>)
    ELSE IF mm.editStep = createStepRevision
    THEN IF k = "enter"
         THEN Ret(EditFocus([mm EXCEPT !.editStep = createStepCluster],
                            createStepCluster), <<>>)
         ELSE Ret([mm EXCEPT !.editRevInput = TextInputUpdate(@, k)], <<>>)
    ELSE IF mm.editStep = createStepCluster
    THEN IF k = "enter"
         THEN Ret(EditFocus([mm EXCEPT !.editStep = createStepNamespace],
                            createStepNamespace), <<>>)
         ELSE Ret([mm EXCEPT !.editClusterIn = TextInputUpdate(@, k)], <<>>)
    ELSE IF mm.editStep = createStepNamespace
    THEN IF k = "enter"
         THEN Ret([mm EXCEPT !.editStep = createStepSyncPolicy], <<>>)
         ELSE Ret([mm EXCEPT !.editNSInput = TextInputUpdate(@, k)], <<>>)
    ELSE IF mm.editStep = createStepSyncPolicy
    THEN IF k = "a" THEN Ret([mm EXCEPT !.editSyncPolicy = S_auto], <<>>)
         ELSE IF k = "m" THEN Ret([mm EXCEPT !.editSyncPolicy = S_manual], <<>>)
         ELSE IF k = "enter"
         THEN Ret([mm EXCEPT !.editStep = createStepConfirm], <<>>)
         ELSE Ret(mm, <<>>)
    ELSE IF mm.editStep = createStepConfirm
    THEN IF k = "y"
         THEN IF mm.editSaving THEN Ret(mm, <<>>)
              ELSE Ret([mm EXCEPT !.editSaving = TRUE, !.statusLine = "saving"],
                       <<updateAppCmd(EditSpec(mm))>>)
         ELSE IF k = "n"
         THEN Ret([resetEditWizard(mm) EXCEPT !.statusLine = "edit cancelled"],
                  <<>>)
         ELSE Ret(mm, <<>>)
    ELSE Ret(mm, <<>>)

\* ------------------------------------------------------------ base screen

\* argocd.ResourceRef of a resource
RefOf(r) == [Kind |-> r.Kind, Name |-> r.Name]

\* The resource under the resource cursor (detail is loaded and not empty).
SelectedResource(mm) ==
    LET rs == mm.detail[1].Resources IN rs[Clamp(mm.resourceSel, 0, Len(rs) - 1) + 1]

\* The application under the cursor (the view is not empty).
SelectedApp(mm) == mm.apps[mm.selected + 1]

\* The snapshot the terminate and edit keys read: the loaded detail when it
\* is the selected application's, else the list entry.
EffectiveApp(mm) ==
    IF mm.detail # Nil /\ mm.detail[1].Name = SelectedApp(mm).Name
    THEN mm.detail[1] ELSE SelectedApp(mm)

\* The targets of the SyncBatch key, were the loop to prepend each name.
RECURSIVE DriftedNamesReversed(_)
DriftedNamesReversed(all) ==
    IF all = <<>> THEN <<>>
    ELSE IF Head(all).Sync # S_Synced
         THEN DriftedNamesReversed(Tail(all)) \o <<Head(all).Name>>
         ELSE DriftedNamesReversed(Tail(all))

\* The targets of the SyncBatch key: the applications of appsAll that are
\* not "Synced", in order.
RECURSIVE DriftedNames(_)
DriftedNames(all) ==
    IF all = <<>> THEN <<>>
    ELSE IF Head(all).Sync # S_Synced
         THEN <<Head(all).Name>> \o DriftedNames(Tail(all))
         ELSE DriftedNames(Tail(all))

\* Opening the sync modal over targets (the SyncBatch and SyncApp keys).
OpenSyncModal(mm, targets) ==
    Ret([mm EXCEPT !.syncModal = TRUE, !.syncTargets = targets,
                   !.syncPreview = buildSyncPreview(mm, targets),
                   !.syncDryRunComplete = FALSE, !.syncDryRunResults = <<>>,
                   !.statusLine = "running dry-run"],
        <<syncBatchCmd(targets, TRUE)>>)

\* A TerminateOp key that reads the list entry only, not the loaded detail.
TerminateOpKeyFromList(mm) ==
    IF Len(mm.apps) = 0 THEN Ret(mm, <<>>)
    ELSE IF ~SelectedApp(mm).Op
    THEN Ret([mm EXCEPT !.statusLine = "no operation in progress"], <<>>)
    ELSE Ret([mm EXCEPT !.terminateModal = TRUE,
                        !.terminateApp = SelectedApp(mm).Name,
                        !.terminateLoading = FALSE, !.terminateErr = "",
                        !.terminateConfirm = FALSE,
                        !.statusLine = "terminate operation?"], <<>>)

\* Update, the TerminateOp key
TerminateOpKey(mm) ==
    IF Len(mm.apps) = 0 THEN Ret(mm, <<>>)
    ELSE IF ~EffectiveApp(mm).Op
    THEN Ret([mm EXCEPT !.statusLine = "no operation in progress"], <<>>)
    ELSE Ret([mm EXCEPT !.terminateModal = TRUE,
                        !.terminateApp = SelectedApp(mm).Name,
                        !.terminateLoading = FALSE, !.terminateErr = "",
                        !.terminateConfirm = FALSE,
                        !.statusLine = "terminate operation?"], <<>>)

\* Update, the Rollback key
RollbackKey(mm) ==
    IF Len(mm.apps) = 0 THEN Ret(mm, <<>>)
    ELSE Ret([mm EXCEPT !.rollbackModal = TRUE,
                        !.rollbackApp = SelectedApp(mm).Name,
                        !.rollbackLoading = TRUE, !.rollbackErr = "",
                        !.rollbackRevs = <<>>, !.rollbackSelected = 0,
                        !.rollbackConfirm = FALSE,
                        !.statusLine = "loading revisions"],
             <<loadRevisionsCmd(SelectedApp(mm).Name)>>)

\* Update, the DeleteApp key
DeleteAppKey(mm) ==
    IF Len(mm.apps) = 0 THEN Ret(mm, <<>>)
    ELSE Ret([mm EXCEPT !.deleteModal = TRUE, !.deleteApp = SelectedApp(mm).Name,
                        !.deleteCascade = FALSE,
                        !.deleteInput = Focus(SetValue(@, <<>>)),
                        !.statusLine = "confirm delete"], <<>>)

\* Update, the CreateApp key
CreateAppKey(mm) ==
    Ret([mm EXCEPT !.createModal = TRUE, !.createStep = createStepName,
                   !.createErr = "", !.createCreating = FALSE,
                   !.createProject = <<>>, !.createRepo = <<>>,
                   !.createCluster = <<>>, !.createSyncPolicy = S_manual,
                   !.createNameInput = Focus(SetValue(@, <<>>)),
                   !.createPathInput = SetValue(@, <<>>),
                   !.createNSInput = SetValue(@, <<>>),
                   !.createRevInput = SetValue(@, S_main),
                   !.createList = ListSetItems(<<>>),
                   !.statusLine = "create app"],
        <<loadProjectsCmd, loadReposCmd, loadClustersCmd>>)

\* Update, the EditApp key
EditAppKey(mm) ==
    IF Len(mm.apps) = 0 THEN Ret(mm, <<>>)
    ELSE LET app == EffectiveApp(mm) IN
         Ret([mm EXCEPT !.editModal = TRUE, !.editStep = createStepRepo,
                        !.editApp = SelectedApp(mm).Name,
                        !.editErr = "", !.editSaving = FALSE,
                        !.editRepoInput = Focus(SetValue(@, app.RepoURL)),
                        !.editPathInput = SetValue(@, app.Path),
                        !.editRevInput =
                            SetValue(@, blankIfEmpty(app.Revision, S_main)),
                        !.editClusterIn = SetValue(@, app.Cluster),
                        !.editNSInput = SetValue(@, app.Namespace),
                        !.editSyncPolicy =
                            IF app.SyncPolicy # <<>> THEN ToLower(app.SyncPolicy)
                            ELSE S_manual,
                        !.statusLine = "edit app"], <<>>)

\* Update, the Up and Down keys after the selection moved: the loaded detail
\* is dropped and the newly selected application's is requested.
MovedTo(m1) ==
    Ret([m1 EXCEPT !.detail = Nil, !.detailErr = "", !.resourceSel = 0],
        <<loadDetailCmd(SelectedApp(m1).Name, FALSE)>>)

\* Update, the Up key
UpKey(mm) ==
    IF mm.focusResources
    THEN Ret([mm EXCEPT !.resourceSel = IF @ > 0 THEN @ - 1 ELSE @], <<>>)
    ELSE IF mm.selected > 0
    THEN MovedTo(ensureSidebarSelectionVisible([mm EXCEPT !.selected = @ - 1]))
    ELSE Ret(mm, <<>>)

\* Update, the Down key
DownKey(mm) ==
    IF mm.focusResources
    THEN Ret([mm EXCEPT !.resourceSel =
                 IF mm.detail # Nil /\ @ < Len(mm.detail[1].Resources) - 1
                 THEN @ + 1 ELSE @], <<>>)
    ELSE IF mm.selected < Len(mm.apps) - 1
    THEN MovedTo(ensureSidebarSelectionVisible([mm EXCEPT !.selected = @ + 1]))
    ELSE Ret(mm, <<>>)

\* Update, case tea.KeyMsg while the filter input is active
FilterKeys(mm, k) ==
    IF k = "esc"
    THEN Ret(ensureSidebarSelectionVisible(
                 applyFilter([mm EXCEPT !.filterInput = Blur(SetValue(@, <<>>)),
                                        !.filterActive = FALSE], TRUE)), <<>>)
    ELSE Ret(ensureSidebarSelectionVisible(
                 applyFilter([mm EXCEPT !.filterInput = TextInputUpdate(@, k)],
                             TRUE)), <<>>)

\* Update, case tea.KeyMsg on the base screen: the switch, in its order.
BaseKeys(mm, k) ==
    IF k = "tab"
    THEN Ret([mm EXCEPT !.focusResources = ~@,
                        !.statusLine = IF ~mm.focusResources
                                       THEN "focus: resources (tab to switch)"
                                       ELSE "focus: applications (tab to switch)"],
             <<>>)
    ELSE IF k \in {"enter", "v"} /\ mm.focusResources
    THEN IF mm.detail = Nil \/ Len(mm.detail[1].Resources) = 0 THEN Ret(mm, <<>>)
         ELSE LET rd == newResourceDetailsModel(mm.detail[1].Name,
                                                RefOf(SelectedResource(mm)))
              IN Ret([mm EXCEPT !.resourceDetails = Ptr(rd),
                                !.statusLine = "loading resource"],
                     <<resourceDetailsInitCmd(rd)>>)
    ELSE IF k = "E"
    THEN IF Len(mm.apps) = 0 THEN Ret(mm, <<>>)
         ELSE LET ev == newEventsModel(SelectedApp(mm).Name) IN
              Ret([mm EXCEPT !.eventsView = Ptr(ev),
                             !.statusLine = "loading events"],
                  <<eventsInitCmd(ev)>>)
    ELSE IF k = "l" /\ mm.focusResources
    THEN IF mm.detail = Nil \/ Len(mm.detail[1].Resources) = 0 THEN Ret(mm, <<>>)
         ELSE IF ~EqualFold(SelectedResource(mm).Kind, S_pod)
         THEN Ret([mm EXCEPT !.statusLine = "select a Pod to view logs"], <<>>)
         ELSE LET lv == newLogsModel(mm.detail[1].Name, SelectedResource(mm).Name)
              IN Ret([mm EXCEPT !.logsView = Ptr(lv),
                                !.statusLine = "loading logs"],
                     <<logsStartStreamCmd(lv), logsWaitStreamMsgCmd(lv)>>)
    ELSE IF k = "h"
    THEN IF Len(mm.apps) = 0 THEN Ret(mm, <<>>)
         ELSE Ret([mm EXCEPT !.historyView = Ptr(newHistoryModel(EffectiveApp(mm))),
                             !.statusLine = "history"], <<>>)
    ELSE IF k \in {"q", "ctrl+c"} THEN Ret(mm, <<QuitCmd>>)
    ELSE IF k = "d"
    THEN IF Len(mm.apps) = 0 THEN Ret(mm, <<>>)
         ELSE LET filter ==
                      IF mm.focusResources /\ mm.detail # Nil
                         /\ Len(mm.detail[1].Resources) > 0
                      THEN Ptr(RefOf(SelectedResource(mm))) ELSE Nil
                  dv == newDiffModel(SelectedApp(mm).Name, filter)
              IN Ret([mm EXCEPT !.diffView = Ptr(dv), !.statusLine = "loading diff"],
                     <<diffInitCmd(dv)>>)
    ELSE IF k = "?" THEN Ret([mm EXCEPT !.helpShowAll = ~@], <<>>)
    ELSE IF k = "r"
    THEN Ret([mm EXCEPT !.statusLine = "refreshing list"], <<refreshCmd>>)
    ELSE IF k \in {"g", "R"}
    THEN IF Len(mm.apps) = 0 THEN Ret(mm, <<>>)
         ELSE Ret([mm EXCEPT !.statusLine = IF k = "g" THEN "refreshing details"
                                            ELSE "hard refreshing",
                             !.detail = Nil, !.detailErr = ""],
                  <<loadDetailCmd(SelectedApp(mm).Name, k = "R")>>)
    ELSE IF k = "D"
    THEN Ret([ensureSidebarSelectionVisible(
                  applyFilter([mm EXCEPT !.driftOnly = ~@], TRUE))
                 EXCEPT !.statusLine = IF ~mm.driftOnly THEN "showing drift only"
                                       ELSE "showing all apps"], <<>>)
    ELSE IF k = "s"
    THEN IF Len(DriftedNames(mm.appsAll)) = 0
         THEN Ret([mm EXCEPT !.statusLine = "no drifted apps to sync"], <<>>)
         ELSE OpenSyncModal(mm, DriftedNames(mm.appsAll))
    ELSE IF k = "y"
    THEN IF Len(mm.apps) = 0 THEN Ret(mm, <<>>)
         ELSE OpenSyncModal(mm, <<SelectedApp(mm).Name>>)
    ELSE IF k = "b" THEN RollbackKey(mm)
    ELSE IF k = "x" THEN TerminateOpKey(mm)
    ELSE IF k \in {"ctrl+d", "delete"} THEN DeleteAppKey(mm)
    ELSE IF k = "c" THEN CreateAppKey(mm)
    ELSE IF k = "e" THEN EditAppKey(mm)
    ELSE IF k = "/"
    THEN Ret([mm EXCEPT !.filterActive = TRUE, !.filterInput = Focus(@)], <<>>)
    ELSE IF k = "S"
    THEN Ret([ensureSidebarSelectionVisible(
                  applyFilter([mm EXCEPT !.sortMode = (@ + 1) % 3], TRUE))
                 EXCEPT !.statusLine = "sorted"], <<>>)
    ELSE IF k \in {"up", "k"} THEN UpKey(mm)
    ELSE IF k \in {"down", "j"} THEN DownKey(mm)
    ELSE IF k = "esc"
    THEN IF mm.filterInput.value # <<>>
         THEN Ret(ensureSidebarSelectionVisible(
                      applyFilter([mm EXCEPT !.filterInput = SetValue(@, <<>>)],
                                  TRUE)), <<>>)
         ELSE Ret(mm, <<>>)
    ELSE Ret(mm, <<>>)

\* A dispatch in which the open sync modal does not take the keys.
OnKeyMsgPastSyncModal(mm, k) ==
    IF AnyOverlay(mm) THEN OverlayKeys(mm, k)
    ELSE IF mm.deleteModal THEN DeleteModalKeys(mm, k)
    ELSE IF mm.editModal THEN updateEditWizard(mm, k)
    ELSE IF mm.createModal THEN updateCreateWizard(mm, k)
    ELSE IF mm.terminateModal THEN TerminateModalKeys(mm, k)
    ELSE IF mm.rollbackModal THEN RollbackModalKeys(mm, k)
    ELSE IF mm.filterActive THEN FilterKeys(mm, k)
    ELSE BaseKeys(mm, k)

\* Update, case tea.KeyMsg: overlays first, then the modals in the order
\* delete, edit, create, sync, terminate, rollback, then the filter input,
\* then the base screen.
OnKeyMsg(mm, k) ==
    IF AnyOverlay(mm) THEN OverlayKeys(mm, k)
    ELSE IF mm.deleteModal THEN DeleteModalKeys(mm, k)
    ELSE IF mm.editModal THEN updateEditWizard(mm, k)
    ELSE IF mm.createModal THEN updateCreateWizard(mm, k)
    ELSE IF mm.syncModal THEN SyncModalKeys(mm, k)
    ELSE IF mm.terminateModal THEN TerminateModalKeys(mm, k)
    ELSE IF mm.rollbackModal THEN RollbackModalKeys(mm, k)
    ELSE IF mm.filterActive THEN FilterKeys(mm, k)
    ELSE BaseKeys(mm, k)

\* Model.Update: the type switch; a message of any other type changes
\* nothing and returns no command.
Update(mm, msg) ==
    IF msg.t = "key" THEN OnKeyMsg(mm, msg.k)
    ELSE IF msg.t = "WindowSizeMsg" THEN OnWindowSizeMsg(mm, msg)
    ELSE IF msg.t = "appsMsg" THEN OnAppsMsg(mm, msg)
    ELSE IF msg.t = "detailMsg" THEN OnDetailMsg(mm, msg)
    ELSE IF msg.t = "syncBatchMsg" THEN OnSyncBatchMsg(mm, msg)
    ELSE IF msg.t = "revisionsMsg" THEN OnRevisionsMsg(mm, msg)
    ELSE IF msg.t = "rollbackMsg" THEN OnRollbackMsg(mm, msg)
    ELSE IF msg.t = "terminateMsg" THEN OnTerminateMsg(mm, msg)
    ELSE IF msg.t = "deleteMsg" THEN OnDeleteMsg(mm, msg)
    ELSE IF msg.t = "projectsMsg" THEN OnProjectsMsg(mm, msg)
    ELSE IF msg.t = "reposMsg" THEN OnReposMsg(mm, msg)
    ELSE IF msg.t = "clustersMsg" THEN OnClustersMsg(mm, msg)
    ELSE IF msg.t = "createMsg" THEN OnCreateMsg(mm, msg)
    ELSE IF msg.t = "updateMsg" THEN OnUpdateMsg(mm, msg)
    ELSE Ret(mm, <<>>)

\* ------------------------------------------------- commands' completions

\* syncBatchCmd, the loop: one SyncApplication call per target in list order,
\* the call's error appended to the results under the target's name, whatever
\* the error.  es[i] is the error the backend answers the i-th call with.
RECURSIVE syncBatchLoopStopsAtError(_, _, _, _)
syncBatchLoopStopsAtError(targets, dryRun, es, acc) ==
    IF targets = <<>> \/ (acc.results # <<>> /\ acc.results[Len(acc.results)].err # "")
    THEN acc
    ELSE syncBatchLoopStopsAtError(Tail(targets), dryRun, Tail(es),
             [calls |-> Append(acc.calls, [name |-> Head(targets), dryRun |-> dryRun,
                                           err |-> Head(es)]),
              results |-> Append(acc.results, [name |-> Head(targets),
                                               err |-> Head(es)])])

RECURSIVE syncBatchLoop(_, _, _, _)
syncBatchLoop(targets, dryRun, es, acc) ==
    IF targets = <<>> THEN acc
    ELSE syncBatchLoop(Tail(targets), dryRun, Tail(es),
             [calls |-> Append(acc.calls, [name |-> Head(targets), dryRun |-> dryRun,
                                           err |-> Head(es)]),
              results |-> Append(acc.results, [name |-> Head(targets),
                                               err |-> Head(es)])])

\* The runs of a sync batch over targets: the calls it makes and the result
\* list it returns, for every way the backend may answer the calls.
SyncRuns(targets, dryRun, env) ==
    {syncBatchLoop(targets, dryRun, es, [calls |-> <<>>, results |-> <<>>]) :
         es \in [1..Len(targets) -> {""} \cup env.errs]}

OkOrErr(t, appName, env) ==
    {[t |-> t, appName |-> appName, err |-> e] : e \in {""} \cup env.errs}

Items(t, lists, env) ==
    {[t |-> t, items |-> l, err |-> ""] :
         l \in lists \cup (IF env.empties THEN {<<>>} ELSE {})}
        \cup {[t |-> t, items |-> <<>>, err |-> e] : e \in env.errs}

\* The messages command c may post on completion, with env the backend.  A
\* syncBatchMsg is recorded with the batch's targets and backend calls.
Results(c, env) ==
    IF c.c = "refresh"
    THEN {[t |-> "appsMsg", apps |-> a, err |-> ""] : a \in env.snaps}
             \cup {[t |-> "appsMsg", apps |-> <<>>, err |-> e] : e \in env.errs}
    ELSE IF c.c = "loadDetail"
    THEN {[t |-> "detailMsg", app |-> a, err |-> ""] : a \in DetailsOf(c.name, env)}
             \cup {[t |-> "detailMsg", app |-> App(<<>>, <<>>, <<>>, FALSE, <<>>),
                    err |-> e] : e \in env.errs}
    ELSE IF c.c = "syncBatch"
    THEN {[t |-> "syncBatchMsg", dryRun |-> c.dryRun, results |-> run.results,
           gen |-> c.gen, targets |-> c.targets, calls |-> run.calls] :
              run \in SyncRuns(c.targets, c.dryRun, env)}
    ELSE IF c.c = "loadRevisions"
    THEN {[t |-> "revisionsMsg", appName |-> c.appName, revisions |-> r, err |-> ""] :
              r \in RevisionsOf(c.appName)}
             \cup {[t |-> "revisionsMsg", appName |-> c.appName,
                    revisions |-> <<>>, err |-> e] : e \in env.errs}
    ELSE IF c.c = "rollback" THEN OkOrErr("rollbackMsg", c.appName, env)
    ELSE IF c.c = "terminate" THEN OkOrErr("terminateMsg", c.appName, env)
    ELSE IF c.c = "delete" THEN OkOrErr("deleteMsg", c.appName, env)
    ELSE IF c.c = "loadProjects" THEN Items("projectsMsg", ProjectLists, env)
    ELSE IF c.c = "loadRepos" THEN Items("reposMsg", RepoLists, env)
    ELSE IF c.c = "loadClusters" THEN Items("clustersMsg", ClusterLists, env)
    ELSE IF c.c = "createApp" THEN OkOrErr("createMsg", c.app.Name, env)
    ELSE IF c.c = "updateApp" THEN OkOrErr("updateMsg", c.app.Name, env)
    ELSE IF c.c = "resourceDetailsInit"
    THEN {[t |-> "resourceDetailsLoadedMsg", err |-> e] : e \in {""} \cup env.errs}
    ELSE IF c.c = "eventsInit"
    THEN {[t |-> "eventsLoadedMsg", err |-> e] : e \in {""} \cup env.errs}
    ELSE IF c.c = "diffInit"
    THEN {[t |-> "diffLoadedMsg", err |-> e] : e \in {""} \cup env.errs}
    ELSE IF c.c = "logsStartStream" THEN {[t |-> "nil"]}
    ELSE {[t |-> "logLineMsg"], [t |-> "logErrMsg"], [t |-> "logDoneMsg"]}

\* The commands of cs as a bag: commands in flight complete in any order.
RECURSIVE SeqToBag(_)
SeqToBag(cs) ==
    IF cs = <<>> THEN EmptyBag ELSE SetToBag({Head(cs)}) (+) SeqToBag(Tail(cs))

\* --------------------------------------------------------- the event loop

\* Init: NewModel, with the command of Model.Init (the first list load) issued.
Init ==
    /\ m = NewModel
    /\ inflight = SetToBag({refreshCmd})
    /\ last = [t |-> "nil"]
    /\ cmds = <<refreshCmd>>
    /\ syncGen = 0
    /\ running = TRUE
    /\ streams = <<>>

\* One pass of the event loop: Update handles msg, the commands it returns
\* start running.  A sync batch issued is stamped with the number of the sync
\* modal opening it belongs to.
Stamp(cs, gen) ==
    [i \in 1..Len(cs) |->
        IF cs[i].c = "syncBatch" THEN [cs[i] EXCEPT !.gen = gen] ELSE cs[i]]

Quits(cs) == \E i \in 1..Len(cs) : cs[i] = QuitCmd

\* The handler runs when it returns no command or fewer than cap commands
\* are in flight.
Commit(r, gen, msg, pending, cap) ==
    /\ running
    /\ gen <= MaxSyncOpens
    /\ r.cmds = <<>> \/ BagCardinality(pending) < cap
    /\ m' = r.m
    /\ cmds' = Stamp(r.cmds, gen)
    /\ last' = msg
    /\ syncGen' = gen
    /\ running' = ~Quits(r.cmds)
    /\ inflight' = IF Quits(r.cmds) THEN pending
                   ELSE pending (+) SeqToBag(Stamp(r.cmds, gen))
    /\ streams' = streams

Opening(r) == IF ~m.syncModal /\ r.m.syncModal THEN syncGen + 1 ELSE syncGen

Stamped(r, msg, pending, cap) == Commit(r, Opening(r), msg, pending, cap)

Handle(msg, pending, cap) == Stamped(Update(m, msg), msg, pending, cap)

\* The operator presses key k.
KeyMsg(k, cap) == Handle(Key(k), inflight, cap)

\* A command in flight completes and posts its message.
Deliver(env, cap) ==
    \E c \in BagToSet(inflight) :
        \E msg \in Results(c, env) : Handle(msg, inflight (-) SetToBag({c}), cap)

\* The terminal is resized.
WindowSize(h, cap) == Handle([t |-> "WindowSizeMsg", height |-> h], inflight, cap)

\* ---------------------------------------------------------- specifications

\* The sync modal and its batches.
SyncKeys == {"s", "y", "n", "esc", "r"}

Heights == {0, 3}

SyncBackend ==
    Backend({Snapshot1, Snapshot3}, {FALSE}, {<<>>, <<PodRes, SvcRes>>}, FALSE, Errors)

NextSync ==
    \/ \E k \in SyncKeys : KeyMsg(k, MaxInFlight)
    \/ Deliver(SyncBackend, MaxInFlight)
    \/ \E h \in Heights : WindowSize(h, MaxInFlight)

Spec == Init /\ [][NextSync]_vars

\* The delete modal: the operator types into its input, and presses c (the
\* cascade toggle) only while the modal is open.
DeleteKeys == {"ctrl+d", "enter", "esc", "a", " ", "backspace"}

DeleteBackend == Backend({Snapshot3}, {FALSE}, {<<>>}, FALSE, Errors)

NextDelete ==
    \/ \E k \in DeleteKeys : KeyMsg(k, MaxInFlight)
    \/ m.deleteModal /\ KeyMsg("c", MaxInFlight)
    \/ Deliver(DeleteBackend, MaxInFlight)

SpecDelete == Init /\ [][NextDelete]_vars

\* The rollback modal.
RollbackKeys == {"b", "enter", "y", "j", "k", "esc"}

RollbackBackend == Backend({Snapshot3}, {FALSE}, {<<>>}, FALSE, Errors)

NextRollback ==
    \/ \E k \in RollbackKeys : KeyMsg(k, MaxInFlight)
    \/ Deliver(RollbackBackend, MaxInFlight)

SpecRollback == Init /\ [][NextRollback]_vars

\* The terminate modal.
TerminateKeys == {"x", "enter", "y", "esc", "g", "r"}

TerminateBackend == Backend({Snapshot3, Snapshot4}, BOOLEAN, {<<>>}, FALSE, Errors)

NextTerminate ==
    \/ \E k \in TerminateKeys : KeyMsg(k, MaxInFlight)
    \/ Deliver(TerminateBackend, MaxInFlight)

SpecTerminate == Init /\ [][NextTerminate]_vars

\* Every modal and every overlay: the keys that open, advance and cancel.
\* While a modal with a text input is open the operator presses only the
\* keys of WizardKeys, so that few texts are typed.
WizardKeys == {"esc", "enter", "ctrl+d"}

ModalKeys == {"c", "e", "s", "b", "x", "y", "tab", "l", "E", "h", "d", "q"}

TextModal == m.deleteModal \/ m.createModal \/ m.editModal

ModalBackend == Backend({Snapshot4}, {TRUE}, {<<PodRes, SvcRes>>}, FALSE, {})

NextModal ==
    \/ \E k \in WizardKeys : KeyMsg(k, MaxInFlightWide)
    \/ \E k \in ModalKeys : ~TextModal /\ KeyMsg(k, MaxInFlightWide)
    \/ Deliver(ModalBackend, MaxInFlightWide)

SpecModal == Init /\ [][NextModal]_vars

\* The view: snapshots, the filter, the drift toggle, the sort mode, the
\* cursor and the window.
ViewKeys == {"j", "k", "D", "S", "/", "a", "esc", "r"}

ViewBackend == Backend({Snapshot1, Snapshot2}, {FALSE}, {<<>>}, FALSE, Errors)

NextView ==
    \/ \E k \in ViewKeys : KeyMsg(k, MaxInFlightWide)
    \/ Deliver(ViewBackend, MaxInFlightWide)

SpecView == Init /\ [][NextView]_vars

\* ------------------------------------------------------------------ claims

\* C1: while the sync modal is open and the dry run has not completed, the
\* y key changes no state and returns no command (so no SyncApplication
\* call, dry or mutating, comes of it).
C1_ConfirmBeforeDryRunDoesNothing ==
    [][(m.syncModal /\ ~m.syncDryRunComplete /\ last' = Key("y"))
           => (m' = m /\ cmds' = <<>>)]_vars

\* y was pressed in the open sync modal before the dry run completed.
C1_Witness ==
    /\ last = Key("y")
    /\ m.syncModal /\ ~m.syncDryRunComplete
    /\ cmds = <<>>
    /\ \E c \in BagToSet(inflight) : c.c = "syncBatch" /\ c.dryRun

\* C2: in the delete modal, enter issues DeleteApplication(target, cascade)
\* if and only if the typed text is the target's name, character for
\* character; with any other text it issues nothing, leaves the modal open
\* and sets the status hint.
C2_DeleteRequiresExactName ==
    [][(m.deleteModal /\ last' = Key("enter"))
           => IF m.deleteInput.value = m.deleteApp
              THEN cmds' = <<deleteCmd(m.deleteApp, m.deleteCascade)>>
              ELSE /\ cmds' = <<>>
                   /\ m'.deleteModal
                   /\ m'.statusLine = "type the exact app name to confirm"]_vars

\* C3: a mutating sync batch is issued only once the dry run of the current
\* modal opening has completed, and the completion of a dry run that an
\* earlier, cancelled opening issued does not set the dry-run-complete flag
\* of the modal now open.
C3_StaleDryRunDoesNotEnableConfirm ==
    [][/\ (\E i \in 1..Len(cmds') :
               cmds'[i].c = "syncBatch" /\ ~cmds'[i].dryRun)
           => ~\E c \in BagToSet(inflight) :
                  c.c = "syncBatch" /\ c.dryRun /\ c.gen = syncGen
       /\ (m.syncModal /\ last'.t = "syncBatchMsg" /\ last'.dryRun
               /\ last'.gen # syncGen)
           => m'.syncDryRunComplete = m.syncDryRunComplete]_vars

\* C4: a rollback is issued only by y in the armed rollback modal, for the
\* revision under the cursor; the modal is armed only by enter on a
\* non-empty revision list, which moves nothing; and while it stays armed
\* the cursor does not move and no other revision list is loaded.
C4_RollbackIsArmedThenConfirmed ==
    [][/\ (\E i \in 1..Len(cmds') : cmds'[i].c = "rollback")
           => /\ last' = Key("y")
              /\ m.rollbackModal /\ m.rollbackConfirm
              /\ m.rollbackSelected < Len(m.rollbackRevs)
              /\ cmds' = <<rollbackCmd(m.rollbackApp,
                                       m.rollbackRevs[m.rollbackSelected + 1].ID)>>
       /\ (~m.rollbackConfirm /\ m'.rollbackConfirm)
           => /\ last' = Key("enter")
              /\ m.rollbackModal /\ Len(m.rollbackRevs) > 0
              /\ m'.rollbackSelected = m.rollbackSelected
              /\ m'.rollbackRevs = m.rollbackRevs
       /\ (m.rollbackConfirm /\ m'.rollbackConfirm)
           => /\ m'.rollbackSelected = m.rollbackSelected
              /\ m'.rollbackRevs \in {m.rollbackRevs, <<>>}
              /\ m'.rollbackApp = m.rollbackApp]_vars

\* The cursor was moved to the second revision, enter armed the modal and
\* y issued the rollback to that revision.
C4_Witness ==
    /\ last = Key("y")
    /\ cmds = <<rollbackCmd(N_a, 12)>>
    /\ m.rollbackConfirm /\ m.rollbackSelected = 1

\* C5: a terminate is issued only by y in the armed terminate modal; the
\* modal is armed only by enter while it is open, and opens unarmed; y in
\* the unarmed modal changes no state and returns no command.
C5_TerminateIsArmedThenConfirmed ==
    [][/\ (\E i \in 1..Len(cmds') : cmds'[i].c = "terminate")
           => /\ last' = Key("y")
              /\ m.terminateModal /\ m.terminateConfirm
              /\ cmds' = <<terminateCmd(m.terminateApp)>>
       /\ (~m.terminateConfirm /\ m'.terminateConfirm)
           => (last' = Key("enter") /\ m.terminateModal /\ m'.terminateModal)
       /\ (~m.terminateModal /\ m'.terminateModal) => ~m'.terminateConfirm
       /\ (m.terminateModal /\ ~m.terminateConfirm /\ last' = Key("y"))
           => (m' = m /\ cmds' = <<>>)]_vars

\* enter armed the open terminate modal and y issued the terminate.
C5_Witness ==
    /\ last = Key("y")
    /\ cmds = <<terminateCmd(N_a)>>
    /\ m.terminateModal /\ m.terminateConfirm /\ m.terminateLoading

\* C6: the terminate modal opens only by the x key on a selected application
\* whose snapshot (the loaded detail when it is that application's, else
\* the list entry) has an operation in flight; x on an application without
\* one opens no modal, returns no command and only sets the status hint.
C6_TerminateOpensOnlyWithOperation ==
    [][/\ (~m.terminateModal /\ m'.terminateModal)
           => /\ last' = Key("x")
              /\ Len(m.apps) > 0
              /\ IF m.detail # Nil /\ m.detail[1].Name = m.apps[m.selected + 1].Name
                 THEN m.detail[1].Op ELSE m.apps[m.selected + 1].Op
       /\ (/\ last' = Key("x")
           /\ ~m.terminateModal /\ ~m.syncModal /\ ~m.rollbackModal
           /\ ~m.deleteModal /\ ~m.createModal /\ ~m.editModal
           /\ ~AnyOverlay(m) /\ ~m.filterActive
           /\ Len(m.apps) > 0
           /\ ~(IF m.detail # Nil /\ m.detail[1].Name = m.apps[m.selected + 1].Name
                THEN m.detail[1].Op ELSE m.apps[m.selected + 1].Op))
           => /\ m' = [m EXCEPT !.statusLine = "no operation in progress"]
              /\ cmds' = <<>>]_vars

\* x was pressed on an application whose list entry shows an operation but
\* whose loaded detail shows none: no modal, the hint only.
C6_Witness ==
    /\ last = Key("x")
    /\ m.statusLine = "no operation in progress"
    /\ ~m.terminateModal
    /\ cmds = <<>>
    /\ m.apps # <<>> /\ m.apps[m.selected + 1].Op
    /\ m.detail # Nil /\ ~m.detail[1].Op

\* C7: in every reachable state at most one of the six modals is open and
\* at most one of the five overlays is present.
C7_AtMostOneModalAndOneOverlay ==
    /\ Cardinality({i \in 1..6 :
           <<m.deleteModal, m.createModal, m.editModal,
             m.syncModal, m.rollbackModal, m.terminateModal>>[i]}) <= 1
    /\ Cardinality({i \in 1..5 :
           <<m.resourceDetails, m.eventsView, m.logsView,
             m.diffView, m.historyView>>[i] # Nil}) <= 1

\* The terminate key was pressed, on an application with an operation in
\* flight, while the sync modal was open.
C7_Witness ==
    /\ last = Key("x")
    /\ m.syncModal /\ ~m.terminateModal
    /\ m.apps # <<>> /\ m.apps[m.selected + 1].Op

\* C8: esc in an open modal closes it, returns no command and leaves none of
\* the modal's state behind: targets, armed flag, loading flag, error and
\* loaded lists are cleared and the step is the modal's first.
C8_CancelDiscardsModalState ==
    [][(last' = Key("esc") /\ ~AnyOverlay(m))
           => /\ m.deleteModal
                  => /\ cmds' = <<>> /\ ~m'.deleteModal
                     /\ m'.deleteApp = <<>> /\ ~m'.deleteCascade
                     /\ m'.deleteInput.value = <<>>
              /\ m.syncModal
                  => /\ cmds' = <<>> /\ ~m'.syncModal
                     /\ m'.syncTargets = <<>> /\ m'.syncPreview = <<>>
                     /\ ~m'.syncDryRunComplete /\ m'.syncDryRunResults = <<>>
              /\ m.rollbackModal
                  => /\ cmds' = <<>> /\ ~m'.rollbackModal
                     /\ m'.rollbackApp = <<>> /\ m'.rollbackRevs = <<>>
                     /\ ~m'.rollbackConfirm /\ ~m'.rollbackLoading
                     /\ m'.rollbackErr = ""
              /\ m.terminateModal
                  => /\ cmds' = <<>> /\ ~m'.terminateModal
                     /\ m'.terminateApp = <<>> /\ ~m'.terminateConfirm
                     /\ ~m'.terminateLoading /\ m'.terminateErr = ""
              /\ m.editModal
                  => /\ cmds' = <<>> /\ ~m'.editModal
                     /\ m'.editApp = <<>> /\ m'.editStep = createStepRepo
                     /\ ~m'.editSaving /\ m'.editErr = ""
              /\ m.createModal
                  => /\ cmds' = <<>> /\ ~m'.createModal
                     /\ m'.createStep = createStepName
                     /\ ~m'.createCreating /\ m'.createErr = ""
                     /\ m'.createProject = <<>> /\ m'.createRepo = <<>>
                     /\ m'.createCluster = <<>>
                     /\ m'.createList.items = <<>>
                     /\ m'.createProjects = <<>> /\ m'.createRepos = <<>>
                     /\ m'.createClusters = <<>>]_vars

\* C9: in every reachable state the selection index is within the view, and
\* is 0 when the view is empty.
C9_SelectionWithinView ==
    IF m.apps = <<>> THEN m.selected = 0
    ELSE m.selected >= 0 /\ m.selected < Len(m.apps)

\* The drift toggle took the selected application (the third, whose detail
\* is loaded) out of the view, and the selection fell back to the last of
\* the two that remain.
C9_Witness ==
    /\ last = Key("D")
    /\ m.driftOnly
    /\ Len(m.appsAll) = 3 /\ Len(m.apps) = 2 /\ m.selected = 1
    /\ m.detail # Nil /\ m.detail[1].Name = N_ca

\* C10: every recompute of the view (a snapshot ingested, the filter text
\* changed, the drift toggle, the sort cycle) leaves the selection on the
\* application selected before when the new view still has it, and else
\* pulls the index back to the last valid position.
C10_RecomputeKeepsSelectedApplication ==
    [][(/\ Len(m.apps) > 0
        /\ \/ last'.t = "appsMsg" /\ last'.err = ""
           \/ last'.t = "key" /\ (m.filterActive \/ last'.k \in {"D", "S", "esc"}))
           => IF \E i \in 1..Len(m'.apps) :
                    m'.apps[i].Name = m.apps[m.selected + 1].Name
              THEN m'.apps[m'.selected + 1].Name = m.apps[m.selected + 1].Name
              ELSE m'.selected = Min(m.selected, Max(0, Len(m'.apps) - 1))]_vars

\* C11: when a delete, rollback, terminate, create or update command
\* completes with an error while its modal is open, the error is stored in
\* that modal's own error field, the modal stays open and the top-level
\* (list-load) error is left as it was.
C11_ModalErrorStaysInModal ==
    [][/\ (last'.t = "deleteMsg" /\ last'.err # "" /\ m.deleteModal)
           => (m'.deleteModal /\ m'.err = m.err)
       /\ (last'.t = "rollbackMsg" /\ last'.err # "" /\ m.rollbackModal)
           => (m'.rollbackModal /\ m'.rollbackErr = last'.err /\ m'.err = m.err)
       /\ (last'.t = "terminateMsg" /\ last'.err # "" /\ m.terminateModal)
           => (m'.terminateModal /\ m'.terminateErr = last'.err /\ m'.err = m.err)
       /\ (last'.t = "createMsg" /\ last'.err # "" /\ m.createModal)
           => (m'.createModal /\ m'.createErr = last'.err /\ m'.err = m.err)
       /\ (last'.t = "updateMsg" /\ last'.err # "" /\ m.editModal)
           => (m'.editModal /\ m'.editErr = last'.err /\ m'.err = m.err)]_vars

\* The keys of a retry: none of them cancels a modal.
RetryKeys == {"enter", "y", "j", "k", "a", "backspace"}

\* The Models the operator can bring about from those of S with one more key
\* of RetryKeys, and the closure of S under that.
RetryGrow(S) == S \cup {OnKeyMsg(s, k).m : s \in S, k \in RetryKeys}

RECURSIVE RetryClose(_, _)
RetryClose(S, N) == IF N = S THEN S ELSE RetryClose(N, RetryGrow(N))

RetryReach(mm) == RetryClose({mm}, RetryGrow({mm}))

\* The application a mutating command acts on.
TargetOf(c) == IF c.c \in {"createApp", "updateApp"} THEN c.app.Name ELSE c.appName

\* Whether handler result r issues the mutating command kind on appName.
Issues(r, kind, appName) ==
    \E i \in 1..Len(r.cmds) : r.cmds[i].c = kind /\ TargetOf(r.cmds[i]) = appName

\* Whether some sequence of keys of RetryKeys pressed from mm issues it.
CanReissue(mm, kind, appName) ==
    \E s \in RetryReach(mm) : \E k \in RetryKeys :
        Issues(OnKeyMsg(s, k), kind, appName)

\* C12: after a rollback, terminate, delete, create or update command failed
\* and its modal is still open, some sequence of keys that cancels nothing
\* issues the same command again.
C12_FailedCommandCanBeRetried ==
    /\ (last.t = "rollbackMsg" /\ last.err # "" /\ m.rollbackModal)
           => CanReissue(m, "rollback", last.appName)
    /\ (last.t = "terminateMsg" /\ last.err # "" /\ m.terminateModal)
           => CanReissue(m, "terminate", last.appName)
    /\ (last.t = "deleteMsg" /\ last.err # "" /\ m.deleteModal)
           => CanReissue(m, "delete", last.appName)
    /\ (last.t = "createMsg" /\ last.err # "" /\ m.createModal)
           => CanReissue(m, "createApp", last.appName)
    /\ (last.t = "updateMsg" /\ last.err # "" /\ m.editModal)
           => CanReissue(m, "updateApp", last.appName)

\* The fields of the Model that belong to the six modals.
ModalFields ==
    {"deleteModal", "deleteApp", "deleteCascade", "deleteInput",
     "createModal", "createStep", "createNameInput", "createPathInput",
     "createNSInput", "createRevInput", "createList", "createProjects",
     "createRepos", "createClusters", "createProject", "createRepo",
     "createCluster", "createSyncPolicy", "createErr", "createCreating",
     "editModal", "editStep", "editApp", "editRepoInput", "editPathInput",
     "editRevInput", "editClusterIn", "editNSInput", "editSyncPolicy",
     "editErr", "editSaving",
     "syncModal", "syncTargets", "syncPreview", "syncDryRunComplete",
     "syncDryRunResults",
     "rollbackModal", "rollbackApp", "rollbackLoading", "rollbackErr",
     "rollbackRevs", "rollbackSelected", "rollbackConfirm",
     "terminateModal", "terminateApp", "terminateLoading", "terminateErr",
     "terminateConfirm"}

ModalState(mm) == [f \in ModalFields |-> mm[f]]

\* C13: the completion of a command that a since-cancelled modal requested
\* is ignored.  The terminate, rollback, create and edit modals have one
\* command in flight at a time and close only by a cancel key or by their
\* own command's success, so a completion of theirs that arrives while the
\* modal is closed belongs to a cancelled modal; a dry run that an earlier
\* sync modal opening issued belongs to a cancelled opening.  Handling such
\* a message changes no modal state and returns no command.
C13_CompletionAfterCancelIsIgnored ==
    [][(\/ last'.t = "terminateMsg" /\ ~m.terminateModal
        \/ last'.t \in {"rollbackMsg", "revisionsMsg"} /\ ~m.rollbackModal
        \/ last'.t = "createMsg" /\ ~m.createModal
        \/ last'.t = "updateMsg" /\ ~m.editModal
        \/ last'.t = "syncBatchMsg" /\ last'.dryRun /\ last'.gen < syncGen)
           => (ModalState(m') = ModalState(m) /\ cmds' = <<>>)]_vars

\* The appsMsg of a list load that read snapshot a.
LoadedMsg(a) == [t |-> "appsMsg", apps |-> a, err |-> ""]

\* The Model after Update handled first and then second.
AfterBoth(mm, first, second) == Update(Update(mm, first).m, second).m

\* C14: with two list refreshes in flight of which the earlier-issued read
\* snapshot a and the later-issued, after the backend data changed, read
\* snapshot b, the canonical set after both completions were handled is b,
\* whichever completes first.
C14_StaleListCannotOverwrite ==
    CopiesIn(refreshCmd, inflight) >= 2
        => \A a, b \in SyncBackend.snaps :
               a # b => /\ AfterBoth(m, LoadedMsg(a), LoadedMsg(b)).appsAll = b
                        /\ AfterBoth(m, LoadedMsg(b), LoadedMsg(a)).appsAll = b

\* C15: a list completion that carries an error sets the status line and
\* discards nothing displayed: the canonical set, the view, the selection
\* index and the loaded detail are as before.
C15_FailedRefreshKeepsData ==
    [][(last'.t = "appsMsg" /\ last'.err # "")
           => /\ m'.statusLine = "failed to load apps"
              /\ m'.appsAll = m.appsAll
              /\ m'.apps = m.apps
              /\ m'.selected = m.selected
              /\ m'.detail = m.detail]_vars

\* ------------------------------------------- the projection as a function

\* Applications a canonical set holds at most
MaxApps == 3

S_Unknown == <<"U", "n", "k", "n", "o", "w", "n">>

N_frontend == <<"f", "r", "o", "n", "t", "e", "n", "d">>

N_backend == <<"b", "a", "c", "k", "e", "n", "d">>

S_END == <<"E", "N", "D">>

\* The names, and the health and sync statuses, of the canonical sets.
Names == {N_a, N_ca, N_B}

Statuses ==
    {<<S_Degraded, S_OutOfSync>>, <<S_Healthy, S_Synced>>,
     <<S_Unknown, S_Unknown>>, <<<<>>, <<>>>>}

\* A list of applications, one per entry of f (a name and its statuses).
Listed(f) ==
    [i \in 1..Len(f) |-> App(f[i][1], f[i][2][1], f[i][2][2], FALSE, <<>>)]

\* The canonical sets: up to MaxApps applications of distinct names, in any
\* order, and the two applications of the filter test.
TestApps ==
    <<App(N_frontend, <<>>, S_Synced, FALSE, <<>>),
      App(N_backend, <<>>, S_OutOfSync, FALSE, <<>>)>>

CanonicalSets ==
    {TestApps} \cup
    UNION {{Listed(f) : f \in {g \in [1..n -> Names \X Statuses] :
                                  \A i, j \in 1..n : i # j => g[i][1] # g[j][1]}} :
               n \in 0..MaxApps}

\* The texts of the filter input.
Queries == {<<>>, <<"A">>, <<" ", "a">>, <<"b">>, S_END}

SortModes == {sortByName, sortByHealth, sortBySync}

\* The Model before a recompute: the canonical set all is loaded, the view
\* is still empty (the first load) or the whole sorted set with the cursor
\* at sel, and the query, the drift flag and the sort mode are set.
BeforeRecompute(all, q, d, s, shown, sel) ==
    [(IF shown
      THEN sortApps([NewModel EXCEPT !.apps = all, !.sortMode = s])
      ELSE [NewModel EXCEPT !.sortMode = s])
        EXCEPT !.appsAll = all, !.selected = sel,
               !.filterInput = SetValue(@, q), !.driftOnly = d]

InitFilter ==
    /\ \E all \in CanonicalSets, q \in Queries, d \in BOOLEAN, s \in SortModes,
          shown \in BOOLEAN :
           \E sel \in 0..Max(0, (IF shown THEN Len(all) ELSE 0) - 1) :
               m = BeforeRecompute(all, q, d, s, shown, sel)
    /\ inflight = EmptyBag
    /\ last = [t |-> "nil"]
    /\ cmds = <<>>
    /\ syncGen = 0
    /\ running = TRUE
    /\ streams = <<>>

\* applyFilter(keep) is called.
Recompute(keep) ==
    /\ m' = applyFilter(m, keep)
    /\ last' = [t |-> "applyFilter", keep |-> keep]
    /\ UNCHANGED <<inflight, cmds, syncGen, running, streams>>

NextFilter == \E keep \in BOOLEAN : Recompute(keep)

SpecFilter == InitFilter /\ [][NextFilter]_vars

\* The elements of a list.
Range(xs) == {xs[i] : i \in 1..Len(xs)}

\* The names of a list of applications, in order.
NamesOf(xs) == [i \in 1..Len(xs) |-> xs[i].Name]

\* Whether name contains q as a case-insensitive substring.
NameContains(name, q) == Contains(ToLower(name), ToLower(q))

\* C16 as stated: after a recompute with drift-only off the view holds
\* exactly the applications of the canonical set whose name contains the
\* query text as a case-insensitive substring (all of them when it is empty).
C16_ViewIsExactlyTheMatches ==
    (last.t = "applyFilter" /\ ~m.driftOnly)
        => /\ Range(m.apps) \subseteq Range(m.appsAll)
           /\ \A a \in Range(m.appsAll) :
                  a \in Range(m.apps)
                      <=> (m.filterInput.value = <<>>
                               \/ NameContains(a.Name, m.filterInput.value))

\* C16 as amended: ... whose name contains the query text, with the white
\* space around it removed, as a case-insensitive substring (all of them
\* when nothing is left of it).
C16_ViewIsExactlyTheTrimmedMatches ==
    (last.t = "applyFilter" /\ ~m.driftOnly)
        => /\ Range(m.apps) \subseteq Range(m.appsAll)
           /\ \A a \in Range(m.appsAll) :
                  a \in Range(m.apps)
                      <=> (TrimSpace(m.filterInput.value) = <<>>
                               \/ NameContains(a.Name,
                                               TrimSpace(m.filterInput.value)))

\* The query "b" kept the application "B" of a set of three and left the
\* other two out.
C16_Witness ==
    /\ last.t = "applyFilter" /\ ~m.driftOnly
    /\ m.filterInput.value = <<"b">>
    /\ Len(m.appsAll) = 3
    /\ NamesOf(m.apps) = <<N_B>>

\* C17: after a recompute with drift-only on, no member of the view has the
\* sync status "Synced", and every application of the canonical set whose
\* name matches the query and whose sync status is not "Synced" (an empty
\* status included) is in the view.
C17_DriftOnlyHidesExactlyTheSynced ==
    (last.t = "applyFilter" /\ m.driftOnly)
        => /\ \A a \in Range(m.apps) : a.Sync # S_Synced
           /\ \A a \in Range(m.appsAll) :
                  (/\ a.Sync # S_Synced
                   /\ (m.filterInput.value = <<>>
                           \/ NameContains(a.Name, m.filterInput.value)))
                      => a \in Range(m.apps)

\* Drift-only took the synced application out of a set of three and kept
\* one with an empty sync status.
C17_Witness ==
    /\ last.t = "applyFilter" /\ m.driftOnly
    /\ Len(m.appsAll) = 3 /\ Len(m.apps) = 2
    /\ \E a \in Range(m.appsAll) : a.Sync = S_Synced
    /\ \E a \in Range(m.apps) : a.Sync = <<>>

\* C18 as stated: over the canonical set [frontend, backend], with
\* drift-only off and the query "END", the recomputed view is [backend].
C18_QueryENDGivesBackendOnly ==
    (/\ last.t = "applyFilter"
     /\ m.appsAll = TestApps /\ ~m.driftOnly /\ m.filterInput.value = S_END)
        => NamesOf(m.apps) = <<N_backend>>

\* C18 as amended: ... the recomputed view is [backend, frontend], both
\* names containing "end", in name order.
C18_QueryENDGivesBackendFrontend ==
    (/\ last.t = "applyFilter"
     /\ m.appsAll = TestApps /\ ~m.driftOnly /\ m.filterInput.value = S_END)
        => NamesOf(m.apps) = <<N_backend, N_frontend>>

\* The view was recomputed over [frontend, backend] with the query "END" in
\* the name sort mode.
C18_Witness ==
    /\ last.t = "applyFilter"
    /\ m.appsAll = TestApps /\ ~m.driftOnly /\ m.filterInput.value = S_END
    /\ m.sortMode = sortByName
    /\ Len(m.apps) = 2

\* C19: a recompute that follows a recompute, with the query, the drift
\* flag, the sort mode and the canonical set unchanged, leaves the view, its
\* order and the selection as the first recompute left them.
C19_RecomputeIsIdempotent ==
    last.t = "applyFilter"
        => \A keep \in BOOLEAN :
               /\ applyFilter(m, keep).apps = m.apps
               /\ applyFilter(m, keep).selected = m.selected

\* A recompute kept the selection on the second of the two applications a
\* query left of three, in the health sort mode.
C19_Witness ==
    /\ last = [t |-> "applyFilter", keep |-> TRUE]
    /\ m.sortMode = sortByHealth
    /\ m.filterInput.value = <<"A">>
    /\ Len(m.appsAll) = 3 /\ Len(m.apps) = 2 /\ m.selected = 1

\* A status as the rank tables read it.
Folded(status) == ToLower(TrimSpace(status))

\* The rank tables as the claim words them: the named statuses in order,
\* then unknown and empty statuses as one last rank.
StatedHealthRank(status) ==
    IF Folded(status) = S_degraded THEN 0
    ELSE IF Folded(status) = S_missing THEN 1
    ELSE IF Folded(status) = S_suspended THEN 2
    ELSE IF Folded(status) = S_progressing THEN 3
    ELSE IF Folded(status) = S_healthy THEN 4
    ELSE 5

StatedSyncRank(status) ==
    IF Folded(status) = S_outofsync THEN 0
    ELSE IF Folded(status) = S_unknown THEN 1
    ELSE IF Folded(status) = S_synced THEN 2
    ELSE 3

\* The rank tables with an empty status ranked after every other status.
AmendedHealthRank(status) ==
    IF Folded(status) = <<>> THEN 6 ELSE StatedHealthRank(status)

AmendedSyncRank(status) ==
    IF Folded(status) = <<>> THEN 4 ELSE StatedSyncRank(status)

\* Whether application a may stand before b: a's rank is lower, or the
\* ranks are equal and b's lowered name is not less than a's.
MayPrecede(ra, rb, a, b) ==
    ra < rb \/ (ra = rb /\ ~StrLess(ToLower(b.Name), ToLower(a.Name)))

\* C20 as stated: after a recompute the view is in ascending order of (rank
\* of the status for the sort mode, case-insensitive name), unknown and
\* empty statuses sharing the last rank; in name mode, of the name alone.
C20_ViewOrderedByStatedRank ==
    last.t = "applyFilter"
        => \A i, j \in 1..Len(m.apps) :
               i < j =>
                   IF m.sortMode = sortByHealth
                   THEN MayPrecede(StatedHealthRank(m.apps[i].Health),
                                   StatedHealthRank(m.apps[j].Health),
                                   m.apps[i], m.apps[j])
                   ELSE IF m.sortMode = sortBySync
                   THEN MayPrecede(StatedSyncRank(m.apps[i].Sync),
                                   StatedSyncRank(m.apps[j].Sync),
                                   m.apps[i], m.apps[j])
                   ELSE MayPrecede(0, 0, m.apps[i], m.apps[j])

\* C20 as amended: ... an empty status ranking after every other status, an
\* unrecognised one included.
C20_ViewOrderedByRank ==
    last.t = "applyFilter"
        => \A i, j \in 1..Len(m.apps) :
               i < j =>
                   IF m.sortMode = sortByHealth
                   THEN MayPrecede(AmendedHealthRank(m.apps[i].Health),
                                   AmendedHealthRank(m.apps[j].Health),
                                   m.apps[i], m.apps[j])
                   ELSE IF m.sortMode = sortBySync
                   THEN MayPrecede(AmendedSyncRank(m.apps[i].Sync),
                                   AmendedSyncRank(m.apps[j].Sync),
                                   m.apps[i], m.apps[j])
                   ELSE MayPrecede(0, 0, m.apps[i], m.apps[j])

\* A view of three in the health sort mode: two healthy applications, "a"
\* before "B", follow a degraded one that the canonical set lists last.
C20_Witness ==
    /\ last.t = "applyFilter"
    /\ m.sortMode = sortByHealth
    /\ Len(m.apps) = 3
    /\ m.apps[1].Health = S_Degraded /\ m.appsAll[3] = m.apps[1]
    /\ m.apps[2].Health = S_Healthy /\ m.apps[2].Name = N_a
    /\ m.apps[3].Health = S_Healthy /\ m.apps[3].Name = N_B

\* ----------------------------------------------------- the sync batches

\* Batches over two targets: the backend lists two drifted applications.
BatchKeys == {"s", "y", "n", "r"}

BatchBackend == Backend({Snapshot2}, {FALSE}, {<<>>}, FALSE, Errors)

NextBatch ==
    \/ \E k \in BatchKeys : KeyMsg(k, MaxInFlight)
    \/ Deliver(BatchBackend, MaxInFlight)

SpecBatch == Init /\ [][NextBatch]_vars

\* C21: a dry-run batch over its target list makes exactly one
\* SyncApplication(t, true) call per target, in list order, whether or not
\* earlier calls failed, and returns one result list whose i-th result names
\* the i-th target and carries the error of the i-th call; processing the
\* result sets the dry-run-complete flag, stores the results and issues no
\* command, so no mutating call is made for any target.
C21_DryRunBatchCallsEachTargetOnce ==
    [][(last'.t = "syncBatchMsg" /\ last'.dryRun)
           => /\ Len(last'.calls) = Len(last'.targets)
              /\ Len(last'.results) = Len(last'.targets)
              /\ \A i \in 1..Len(last'.targets) :
                     /\ last'.calls[i].name = last'.targets[i]
                     /\ last'.calls[i].dryRun
                     /\ last'.results[i].name = last'.targets[i]
                     /\ last'.results[i].err = last'.calls[i].err
              /\ m'.syncDryRunComplete
              /\ m'.syncDryRunResults = last'.results
              /\ cmds' = <<>>]_vars

\* A dry run over two targets whose first call failed and whose second call
\* succeeded has been processed.
C21_Witness ==
    /\ last.t = "syncBatchMsg" /\ last.dryRun
    /\ Len(last.targets) = 2
    /\ last.results[1].err # "" /\ last.results[2].err = ""
    /\ m.syncDryRunComplete

\* The targets a result list reports on.
ResultNames(results) == [i \in 1..Len(results) |-> results[i].name]

CreateKeys == {"enter", "left"}

CreateBackend == Backend({Snapshot3}, {FALSE}, {<<>>}, FALSE, {})

FocusedInputEmpty ==
    \A f \in {"createNameInput", "createPathInput", "createNSInput"} :
        m[f].focus => m[f].value = <<>>

NextCreate ==
    \/ ~m.createModal /\ KeyMsg("c", MaxInFlightWide)
    \/ \E k \in CreateKeys : m.createModal /\ KeyMsg(k, MaxInFlightWide)
    \/ m.createModal /\ FocusedInputEmpty /\ KeyMsg("a", MaxInFlightWide)
    \/ Deliver(CreateBackend, MaxInFlightWide)

SpecCreate == Init /\ [][NextCreate]_vars

\* The required input of the wizard's current step is there: the text of a
\* text step is not empty, the list of a list step has a selected item (the
\* revision has a default).
RequiredInputPresent(mm) ==
    IF mm.createStep = createStepName THEN mm.createNameInput.value # <<>>
    ELSE IF mm.createStep = createStepPath THEN mm.createPathInput.value # <<>>
    ELSE IF mm.createStep = createStepNamespace THEN mm.createNSInput.value # <<>>
    ELSE IF mm.createStep \in {createStepProject, createStepRepo,
                               createStepCluster, createStepSyncPolicy}
    THEN SelectedItem(mm.createList) # Nil
    ELSE TRUE

\* C23: the create wizard visits name, project, repository, path, revision,
\* cluster, namespace, sync policy, confirm in this order: on a step before
\* confirm the advance key leaves the step or moves to the next step of the
\* order, never further, and it does move on when the step's input is there.
C23_CreateStepsInOrder ==
    [][(m.createModal /\ last' = Key("enter") /\ m.createStep < createStepConfirm)
           => /\ m'.createStep \in {m.createStep, m.createStep + 1}
              /\ RequiredInputPresent(m) => m'.createStep = m.createStep + 1]_vars

\* C24: in the create wizard the advance key on a step whose required input
\* is missing (an empty name, path or namespace text, a list with no
\* selected item) is rejected: the step does not change and no command is
\* issued.
C24_AdvanceNeedsInput ==
    [][(m.createModal /\ last' = Key("enter") /\ m.createStep < createStepConfirm
            /\ ~RequiredInputPresent(m))
           => m'.createStep = m.createStep /\ cmds' = <<>>]_vars

\* The values entered in the create wizard so far.
CreateValues(mm) ==
    <<mm.createNameInput.value, mm.createProject, mm.createRepo,
      mm.createPathInput.value, mm.createRevInput.value, mm.createCluster,
      mm.createNSInput.value, mm.createSyncPolicy>>

\* C25: a back-step in the create wizard moves from step k to step k-1, and
\* nowhere on the first step; it issues no command and leaves every value
\* entered so far (name, project, repository, path, revision, cluster,
\* namespace, sync policy) unchanged.
C25_BackStepKeepsValues ==
    [][(m.createModal /\ last' = Key("left"))
           => /\ m'.createStep = Max(createStepName, m.createStep - 1)
              /\ cmds' = <<>>
              /\ CreateValues(m') = CreateValues(m)
              /\ m'.createModal]_vars

\* A back-step from the confirm step with a name, a path and a namespace
\* typed and the three list values chosen.
C25_Witness ==
    /\ last = Key("left") /\ m.createModal
    /\ m.createStep = createStepSyncPolicy
    /\ m.createNameInput.value # <<>> /\ m.createPathInput.value # <<>>
    /\ m.createNSInput.value # <<>>
    /\ m.createProject # <<>> /\ m.createRepo # <<>> /\ m.createCluster # <<>>

\* The submission of the create wizard: the wizard is walked through with
\* enter, confirmed with y or cancelled with n on its confirm step, and
\* opened again; the create call may fail.
SubmitKeys == {"y", "n"}

SubmitBackend == Backend({Snapshot3}, {FALSE}, {<<>>}, FALSE, Errors)

NextSubmit ==
    \/ ~m.createModal /\ KeyMsg("c", MaxInFlight)
    \/ m.createModal /\ KeyMsg("enter", MaxInFlight)
    \/ \E k \in SubmitKeys :
           m.createModal /\ m.createStep = createStepConfirm /\ KeyMsg(k, MaxInFlight)
    \/ Deliver(SubmitBackend, MaxInFlight)

SpecSubmit == Init /\ [][NextSubmit]_vars

CreateInFlight == \E c \in BagToSet(inflight) : c.c = "createApp"

\* C26: the confirmation on the create wizard's confirm step issues exactly
\* one create call and sets the in-flight flag; while a create call is in
\* flight no key issues another one; and the flag is cleared only by the
\* processing of the call's completion message.
C26_OneCreateInFlight ==
    [][/\ (m.createModal /\ m.createStep = createStepConfirm
              /\ last' = Key("y") /\ ~m.createCreating)
           => /\ cmds' = <<createAppCmd(CreateSpec(m))>>
              /\ m'.createCreating
       /\ CreateInFlight => \A i \in 1..Len(cmds') : cmds'[i].c # "createApp"
       /\ (m.createCreating /\ ~m'.createCreating) => last'.t = "createMsg"]_vars

\* ------------------------------------------------ the log-streaming tasks

\* Log-streaming tasks started in a run
MaxStreams == 2

\* Lines a log stream carries at most
MaxLines == 3

\* Messages a stream's delivery channel buffers (make(chan tea.Msg, 100))
StreamBuffer == 1

\* startStreamCmd, called: a cancellable context and a channel are made, and
\* the task starts when the returned command runs.  held says whether the
\* Model the event loop keeps holds the task's cancel function.
NewStream(held) ==
    [pc |-> "created", cancelled |-> FALSE, held |-> held, buf |-> <<>>,
     chClosed |-> 0, rcOpen |-> FALSE, rcClosed |-> 0, lines |-> 0,
     ended |-> FALSE]

\* ch <- msg
Send(s, msg) == [s EXCEPT !.buf = Append(@, msg)]

\* A send on the channel goes through while the buffer has room.
CanSend(s) == Len(s.buf) < StreamBuffer

\* close(ch) and the return of the task, which runs the deferred rc.Close().
Finish(s) ==
    [s EXCEPT !.chClosed = @ + 1, !.rcClosed = IF s.rcOpen THEN @ + 1 ELSE @,
              !.pc = "done"]

\* The task of startStreamCmd, one step: the states it may move to.
StreamSteps(s, env) ==
    IF s.pc = "open"
    THEN {[s EXCEPT !.rcOpen = TRUE, !.pc = "scan"]}
             \cup {[s EXCEPT !.ended = TRUE, !.pc = "sendErr"] : e \in env.errs}
    ELSE IF s.pc = "scan"
    THEN (IF s.lines >= MaxLines THEN {}
          ELSE IF s.cancelled THEN {Finish(s)}
          ELSE {[s EXCEPT !.lines = @ + 1, !.pc = "sendLine"]})
             \cup {[s EXCEPT !.ended = TRUE, !.pc = "sendDone"]}
             \cup {[s EXCEPT !.ended = TRUE, !.pc = "sendErr"] : e \in env.errs}
    ELSE IF s.pc = "sendLine"
    THEN IF CanSend(s) THEN {[Send(s, "logLineMsg") EXCEPT !.pc = "scan"]} ELSE {}
    ELSE IF s.pc = "sendErr"
    THEN IF CanSend(s) THEN {Finish(Send(s, "logErrMsg"))} ELSE {}
    ELSE IF s.pc = "sendDone"
    THEN IF CanSend(s) THEN {Finish(Send(s, "logDoneMsg"))} ELSE {}
    ELSE {}

StartsStream(cs) == \E i \in 1..Len(cs) : cs[i].c = "logsStartStream"

\* The commands of startStreamCmd and waitStreamMsgCmd hold the channel of
\* the task they were made for, the sid-th.
StampStream(cs, sid) ==
    [i \in 1..Len(cs) |->
        IF cs[i].c \in {"logsStartStream", "logsWaitStreamMsg"}
        THEN [c |-> cs[i].c, appName |-> cs[i].appName, podName |-> cs[i].podName,
              sid |-> sid]
        ELSE cs[i]]

HoldsCancel(mm) == mm.logsView # Nil /\ mm.logsView[1].streamCancel # Nil

\* startStreamCmd, "stop any existing stream": the cancel function the
\* overlay holds is called.
CancelHeld(ss) ==
    [i \in 1..Len(ss) |->
        IF ss[i].held THEN [ss[i] EXCEPT !.cancelled = TRUE] ELSE ss[i]]

\* Only the task whose cancel function the kept Model holds stays held.
Rehold(ss, keep) == [i \in 1..Len(ss) |-> [ss[i] EXCEPT !.held = @ /\ keep]]

\* logsModel.Update returns "m, tea.Batch(m.startStreamCmd(), ...)": Go
\* leaves open whether the returned m is read before or after startStreamCmd
\* stored the cancel function and the stream flag in it.
Stored(r, seen) ==
    IF seen \/ ~StartsStream(r.cmds) \/ m.logsView = Nil \/ r.m.logsView = Nil
    THEN r.m
    ELSE [r.m EXCEPT !.logsView =
              Ptr([@[1] EXCEPT !.streamOn = m.logsView[1].streamOn,
                               !.streamCancel = m.logsView[1].streamCancel])]

\* One pass of the event loop with the streaming tasks followed: ss is the
\* tasks after the command that posted msg ran.
LogsCommit(r, msg, pending, ss, seen) ==
    /\ running
    /\ r.cmds = <<>> \/ BagCardinality(pending) < MaxInFlight
    /\ StartsStream(r.cmds) => Len(ss) < MaxStreams
    /\ m' = Stored(r, seen)
    /\ cmds' = StampStream(r.cmds, Len(ss) + 1)
    /\ last' = msg
    /\ syncGen' = syncGen
    /\ running' = ~Quits(r.cmds)
    /\ inflight' = IF Quits(r.cmds) THEN pending
                   ELSE pending (+) SeqToBag(StampStream(r.cmds, Len(ss) + 1))
    /\ streams' =
           IF StartsStream(r.cmds)
           THEN Append(Rehold(IF HoldsCancel(m) THEN CancelHeld(ss) ELSE ss, FALSE),
                       NewStream(HoldsCancel(Stored(r, seen))))
           ELSE Rehold(ss, HoldsCancel(r.m))

LogsHandle(msg, pending, ss) ==
    \E seen \in BOOLEAN : LogsCommit(Update(m, msg), msg, pending, ss, seen)

LogsKeyMsg(k) == LogsHandle(Key(k), inflight, streams)

\* A command that is not a streaming command completes.
DeliverOther(env) ==
    \E c \in BagToSet(inflight) :
        /\ c.c \notin {"logsStartStream", "logsWaitStreamMsg"}
        /\ \E msg \in Results(c, env) :
               LogsHandle(msg, inflight (-) SetToBag({c}), streams)

\* The command of startStreamCmd runs: it starts the task and returns nil.
DeliverStart ==
    \E c \in BagToSet(inflight) :
        /\ c.c = "logsStartStream"
        /\ LogsHandle([t |-> "nil"], inflight (-) SetToBag({c}),
                      [streams EXCEPT ![c.sid].pc = "open"])

\* The command of waitStreamMsgCmd receives from its channel: the next
\* message, or logDoneMsg from a closed and drained channel.
DeliverWait ==
    \E c \in BagToSet(inflight) :
        /\ c.c = "logsWaitStreamMsg"
        /\ \/ /\ streams[c.sid].buf # <<>>
              /\ LogsHandle([t |-> Head(streams[c.sid].buf)],
                            inflight (-) SetToBag({c}),
                            [streams EXCEPT ![c.sid].buf = Tail(@)])
           \/ /\ streams[c.sid].buf = <<>> /\ streams[c.sid].chClosed > 0
              /\ LogsHandle([t |-> "logDoneMsg"], inflight (-) SetToBag({c}),
                            streams)

\* The i-th streaming task takes a step.
StreamStep(i, env) ==
    /\ i \in 1..Len(streams)
    /\ \E s \in StreamSteps(streams[i], env) : streams' = [streams EXCEPT ![i] = s]
    /\ UNCHANGED <<m, inflight, last, cmds, syncGen, running>>

\* The log overlay: tab moves the focus to the resources, l opens the logs
\* of the selected pod, f toggles follow, esc closes the overlay.
LogsKeys == {"tab", "l", "f", "esc"}

LogsBackend == Backend({Snapshot3}, {FALSE}, {<<PodRes>>}, FALSE, Errors)

NextLogs ==
    \/ \E k \in LogsKeys : LogsKeyMsg(k)
    \/ DeliverOther(LogsBackend)
    \/ DeliverStart
    \/ DeliverWait
    \/ \E i \in 1..MaxStreams : StreamStep(i, LogsBackend)

SpecLogs == Init /\ [][NextLogs]_vars

\* A task is running: its goroutine was started and has not returned.
Streaming(s) == s.pc \notin {"created", "done"}

\* C27: whenever no log overlay is open, no log-streaming task is running
\* with an uncancelled token: closing the overlay cancels its subscription.
C27_NoStreamOutlivesItsOverlay ==
    m.logsView = Nil
        => \A i \in 1..Len(streams) : Streaming(streams[i]) => streams[i].cancelled

\* The streaming tasks and the commands that read their channels keep
\* running: the Go scheduler runs every goroutine that can take a step.
SpecLogsFair ==
    /\ SpecLogs
    /\ \A i \in 1..MaxStreams : WF_vars(StreamStep(i, LogsBackend))
    /\ WF_vars(DeliverStart)
    /\ WF_vars(DeliverWait)

\* The i-th task's stream has ended or its token is cancelled.
Stopped(i) ==
    i <= Len(streams) /\ Streaming(streams[i])
        /\ (streams[i].ended \/ streams[i].cancelled)

\* The i-th task has returned, with the stream reader it opened closed and
\* its channel closed, each exactly once.
Released(i) ==
    /\ i <= Len(streams) /\ streams[i].pc = "done"
    /\ streams[i].chClosed = 1
    /\ streams[i].rcClosed = (IF streams[i].rcOpen THEN 1 ELSE 0)

\* C28: every started streaming task terminates once its stream has reached
\* its end, a read has failed or its token is cancelled, with the stream
\* reader and the delivery channel each closed exactly once, however full
\* the channel is and whether or not anything still reads it.
C28_StreamTaskTerminates ==
    \A i \in 1..MaxStreams : Stopped(i) ~> Released(i)

\* The f key turns follow in the open log overlay back on.
FollowTurnedOn ==
    /\ last' = Key("f")
    /\ m.logsView # Nil /\ ~m.logsView[1].follow
    /\ m'.logsView # Nil /\ m'.logsView[1].follow

\* C29: turning follow off and back on in the log overlay restarts the
\* subscription: a new streaming task is started, and every task started
\* before is cancelled, whether or not it was still running.
C29_FollowRestartsTheStream ==
    [][FollowTurnedOn
           => /\ Len(streams') = Len(streams) + 1
              /\ StartsStream(cmds')
              /\ \A i \in 1..Len(streams) : streams'[i].cancelled]_vars

\* The overlay is open and the task started for it last has read its n-th
\* line from the backend.
LineRead(n) ==
    /\ m.logsView # Nil
    /\ streams # <<>>
    /\ streams[Len(streams)].lines >= n

\* The overlay holds n lines or more (or was closed).
LineShown(n) == m.logsView = Nil \/ Len(m.logsView[1].lines) >= n

\* C33: while a log overlay is open, every line read from the backend
\* stream is eventually appended to the overlay's line buffer: once the
\* n-th line is read, the overlay comes to hold n lines, unless it is
\* closed first.
C33_EveryLineReachesTheOverlay ==
    \A n \in 1..MaxLines : LineRead(n) ~> LineShown(n)

\* ------------------------------------------------------ the sidebar window

\* The sidebar window: the cursor and the drift toggle move the selection
\* and change the view, over lists of two and three applications, in a
\* terminal whose height is unknown (0) or leaves one or two sidebar rows.
ScrollKeys == {"j", "k", "D", "r"}

ScrollHeights == {0, 3, 6}

ScrollBackend == Backend({Snapshot1, Snapshot2}, {FALSE}, {<<>>}, FALSE, {})

NextScroll ==
    \/ \E k \in ScrollKeys : KeyMsg(k, MaxInFlight)
    \/ Deliver(ScrollBackend, MaxInFlight)
    \/ \E h \in ScrollHeights : WindowSize(h, MaxInFlight)

SpecScroll == Init /\ [][NextScroll]_vars

\* The rows of the sidebar a terminal of height h shows.
visibleRows(h) == Max(1, Max(0, h - 2) - 2)

\* C30: after every transition that changes the selection, the length of
\* the view or the terminal height, the sidebar offset o is 0 when the view
\* is empty, and when the view is not empty and the height is known,
\* 0 <= o <= max(0, len(view) - visibleRows) and
\* o <= selected < o + visibleRows.
C30_SelectionInsideWindow ==
    [][(m'.selected # m.selected \/ Len(m'.apps) # Len(m.apps)
            \/ m'.height # m.height)
           => IF m'.apps = <<>> THEN m'.sidebarOffset = 0
              ELSE m'.height # 0
                       => /\ 0 <= m'.sidebarOffset
                          /\ m'.sidebarOffset
                                 <= Max(0, Len(m'.apps) - visibleRows(m'.height))
                          /\ m'.sidebarOffset <= m'.selected
                          /\ m'.selected
                                 < m'.sidebarOffset + visibleRows(m'.height)]_vars

\* The cursor went down to the third of three applications in a window of
\* two rows, and the window scrolled by one.
C30_Witness ==
    /\ last = Key("j")
    /\ Len(m.apps) = 3 /\ m.height = 6
    /\ m.selected = 2 /\ m.sidebarOffset = 1

\* ------------------------------------------------------ the canonical set

\* Every key the operator may press.
EveryKey ==
    RuneKeys \cup {"/", "?", "backspace", "ctrl+c", "ctrl+d", "delete", "down",
                   "enter", "esc", "left", "right", "tab", "up"}

\* A backend that may answer anything: every list, with or without
\* operations and resources, empty lists and errors.
AnyBackend ==
    Backend({Snapshot1, Snapshot2, Snapshot3, Snapshot4}, BOOLEAN,
            {<<>>, <<PodRes, SvcRes>>}, TRUE, Errors)

\* A command of every kind, for the applications a and B.
EveryCommand ==
    {refreshCmd, loadProjectsCmd, loadReposCmd, loadClustersCmd,
     createAppCmd(CreateSpec(NewModel)), updateAppCmd(EditSpec(NewModel))}
        \cup UNION {{loadDetailCmd(n, FALSE), syncBatchCmd(<<n>>, TRUE),
                     syncBatchCmd(<<n>>, FALSE), loadRevisionsCmd(n),
                     rollbackCmd(n, 11), terminateCmd(n), deleteCmd(n, TRUE),
                     resourceDetailsInitCmd(newResourceDetailsModel(n, RefOf(PodRes))),
                     eventsInitCmd(newEventsModel(n)),
                     diffInitCmd(newDiffModel(n, <<>>)),
                     logsStartStreamCmd(newLogsModel(n, S_pod)),
                     logsWaitStreamMsgCmd(newLogsModel(n, S_pod))} :
                        n \in {N_a, N_B}}

\* Every message Update may be handed: a key, a resize, or the completion
\* of a command.
EveryMsg ==
    {Key(k) : k \in EveryKey}
        \cup {[t |-> "WindowSizeMsg", height |-> h] : h \in Heights}
        \cup UNION {Results(c, AnyBackend) : c \in EveryCommand}

\* The operator toggles the drift flag, cycles the sort mode, edits the
\* filter, refreshes, and presses the SyncBatch key; a sync modal that
\* opens is cancelled, and into the filter only s is typed.
DriftKeys == {"s", "D", "S", "/", "esc", "r"}

DriftBackend == Backend({Snapshot2, Snapshot3}, {FALSE}, {<<>>}, FALSE, {})

NextDrift ==
    \/ \E k \in DriftKeys :
           /\ (m.filterActive \/ m.syncModal) => k \in {"s", "esc"}
           /\ KeyMsg(k, MaxInFlightWide)
    \/ Deliver(DriftBackend, MaxInFlightWide)

SpecDrift == Init /\ [][NextDrift]_vars

\* C31: the canonical application set changes only when a successful list
\* snapshot is handled, and then it is that snapshot, whole; any other
\* message (a key, a detail response, a modal's completion, an overlay's
\* message, a failed list load) leaves it as it was.
C31_CanonicalSetReplacedOnlyBySnapshot ==
    \A msg \in EveryMsg :
        Update(m, msg).m.appsAll =
            IF msg.t = "appsMsg" /\ msg.err = "" THEN msg.apps ELSE m.appsAll

\* With the drift flag on, the list of one application, in sync, was
\* loaded: the canonical set is that list, whole, while the view is empty.
C31_Witness ==
    /\ last = [t |-> "appsMsg", apps |-> Snapshot3, err |-> ""]
    /\ m.appsAll = Snapshot3
    /\ m.driftOnly
    /\ m.apps = <<>>

\* ------------------------------------------------- the SyncBatch key

\* The key reaches the switch of the base screen.
OnBaseScreen(mm) ==
    /\ ~AnyOverlay(mm)
    /\ ~mm.deleteModal /\ ~mm.editModal /\ ~mm.createModal /\ ~mm.syncModal
    /\ ~mm.terminateModal /\ ~mm.rollbackModal
    /\ ~mm.filterActive

\* The names of the applications of all that are not "Synced", in the
\* order of all.
NotSynced(all) ==
    LET d == SelectSeq(all, LAMBDA a : a.Sync # S_Synced) IN
    [i \in 1..Len(d) |-> d[i].Name]

\* C32: the SyncBatch key on the base screen targets exactly the
\* applications of the canonical set that are not "Synced", in canonical
\* order, whatever the view shows (drift flag, sort mode, filter), and
\* issues one dry-run batch over them; with no such application it opens
\* no modal and issues no command.
C32_SyncBatchTargetsTheCanonicalDrift ==
    [][(last' = Key("s") /\ OnBaseScreen(m))
           => IF NotSynced(m.appsAll) = <<>>
              THEN ~m'.syncModal /\ cmds' = <<>>
              ELSE /\ m'.syncModal
                   /\ m'.syncTargets = NotSynced(m.appsAll)
                   /\ ~m'.syncDryRunComplete
                   /\ Len(cmds') = 1
                   /\ cmds'[1].c = "syncBatch"
                   /\ cmds'[1].dryRun
                   /\ cmds'[1].targets = NotSynced(m.appsAll)]_vars

\* The view is sorted by health, which puts a before B, while the batch
\* targets B and then a, the order of the canonical set.
C32_Witness ==
    /\ last = Key("s")
    /\ m.syncModal
    /\ m.sortMode # sortByName
    /\ m.syncTargets = <<N_B, N_a>>
    /\ m.apps[1].Name = N_a
    /\ cmds = <<[syncBatchCmd(<<N_B, N_a>>, TRUE) EXCEPT !.gen = syncGen]>>

\* ------------------------------------------------ the overlays' fetches

\* The overlay field a loaded message is for.
OverlayOf(t) ==
    IF t = "resourceDetailsLoadedMsg" THEN "resourceDetails"
    ELSE IF t = "eventsLoadedMsg" THEN "eventsView"
    ELSE "diffView"

\* C34: when the fetch of a resource-detail, events or diff overlay
\* completes, with data or with an error, and the overlay is still open,
\* the overlay leaves its loading state and holds the data or the error.
C34_FetchCompletionReachesTheOverlay ==
    [][(/\ last'.t \in {"resourceDetailsLoadedMsg", "eventsLoadedMsg",
                        "diffLoadedMsg"}
        /\ m[OverlayOf(last'.t)] # Nil)
           => m'[OverlayOf(last'.t)]
                  = Ptr(overlayLoaded(m[OverlayOf(last'.t)][1], last'))]_vars

\* ------------------------------------- rollbacks of two applications

\* The rollback modal over a list of two applications: j moves the cursor
\* (of the sidebar, or of the modal's revision list).
Rollback2Keys == {"b", "enter", "y", "j", "esc"}

Rollback2Backend == Backend({Snapshot1}, {FALSE}, {<<>>}, FALSE, {})

NextRollback2 ==
    \/ \E k \in Rollback2Keys : KeyMsg(k, MaxInFlight)
    \/ Deliver(Rollback2Backend, MaxInFlight)

SpecRollback2 == Init /\ [][NextRollback2]_vars

\* The revision ids ListRevisions may answer for the application.
RevisionIDs(appName) ==
    UNION {{r[i].ID : i \in 1..Len(r)} : r \in RevisionsOf(appName)}

\* C35: every RollbackApplication(app, id) call uses an id of the revision
\* list ListRevisions returned for that same app, however rollback modals
\* for different applications are opened and cancelled while revision
\* loads are in flight.
C35_RollbackIdFromTheAppsOwnRevisions ==
    \A c \in BagToSet(inflight) :
        c.c = "rollback" => c.id \in RevisionIDs(c.appName)

\* ------------------------------------------- the modals' mutating commands

\* c is a mutating command that the modal now open issued: the mutating
\* batch of this opening of the sync modal, or the delete, rollback,
\* terminate or update of the application the open modal names.
OfOpenModal(c) ==
    \/ c.c = "syncBatch" /\ ~c.dryRun /\ m.syncModal /\ c.gen = syncGen
    \/ c.c = "delete" /\ m.deleteModal /\ c.appName = m.deleteApp
    \/ c.c = "rollback" /\ m.rollbackModal /\ c.appName = m.rollbackApp
    \/ c.c = "terminate" /\ m.terminateModal /\ c.appName = m.terminateApp
    \/ c.c = "updateApp" /\ m.editModal /\ c.app.Name = m.editApp

IsMutating(c) ==
    \/ c.c = "syncBatch" /\ ~c.dryRun
    \/ c.c \in {"delete", "rollback", "terminate", "updateApp"}

\* C36: while a mutating command the open modal issued is in flight, a
\* keystroke issues no second mutating command: each modal opening has at
\* most one of its mutating commands outstanding.
C36_OneMutatingCommandPerModal ==
    [][(/\ last'.t = "key"
        /\ \E c \in BagToSet(inflight) : OfOpenModal(c))
           => \A i \in 1..Len(cmds') : ~IsMutating(cmds'[i])]_vars

\* ------------------------------------------ the create wizard's choices

\* C37: whenever the create wizard is at its confirm step, the stored
\* project is a member of the loaded project list, the stored repository of
\* the loaded repository list and the stored cluster of the loaded cluster
\* list, whatever advance and back-step keys led there.
C37_ChoicesComeFromTheirLists ==
    (m.createModal /\ m.createStep = createStepConfirm)
        => /\ m.createProject \in Range(m.createProjects)
           /\ m.createRepo \in Range(m.createRepos)
           /\ m.createCluster \in Range(m.createClusters)

\* ------------------------------------------- the create wizard's loads

\* The three list loads the CreateApp key issues.
ListLoads == <<loadProjectsCmd, loadReposCmd, loadClustersCmd>>

\* The orders in which the three loads may complete.
LoadOrders == {o \in [1..3 -> 1..3] : \A i, j \in 1..3 : i # j => o[i] # o[j]}

\* The Model after the three completions were handled in the given order.
AfterLoads(mm, first, second, third) ==
    Update(Update(Update(mm, first).m, second).m, third).m

\* C38: if any of the three list loads issued when the create wizard opens
\* fails, the wizard's error field is set after all three completions have
\* been handled, in every completion order.
C38_LoadErrorSurvivesTheOtherLoads ==
    (m.createModal /\ \A i \in 1..3 : BagIn(ListLoads[i], inflight))
        => \A o \in LoadOrders :
               \A r1 \in Results(ListLoads[o[1]], SubmitBackend),
                  r2 \in Results(ListLoads[o[2]], SubmitBackend),
                  r3 \in Results(ListLoads[o[3]], SubmitBackend) :
                   (r1.err # "" \/ r2.err # "" \/ r3.err # "")
                       => AfterLoads(m, r1, r2, r3).createErr # ""

\* ------------------------------------------- the resource overlays' target

\* The resource scope over a list of two applications: j moves the cursor,
\* D toggles the drift flag, tab moves the focus to the resources, enter
\* opens the resource detail and l the logs of the pod, esc closes them.
TargetKeys == {"j", "D", "tab", "enter", "l", "esc"}

TargetBackend == Backend({Snapshot1}, {FALSE}, {<<PodRes>>}, FALSE, {})

NextTarget ==
    \/ \E k \in TargetKeys : KeyMsg(k, MaxInFlight)
    \/ Deliver(TargetBackend, MaxInFlight)

SpecTarget == Init /\ [][NextTarget]_vars

\* The application the overlay the step opened targets.
OpenedFor ==
    IF m.resourceDetails = Nil /\ m'.resourceDetails # Nil
    THEN {m'.resourceDetails[1].appName}
    ELSE IF m.logsView = Nil /\ m'.logsView # Nil
    THEN {m'.logsView[1].appName}
    ELSE {}

\* C39: whenever a resource-detail or log overlay is opened from the
\* resource scope, the application it targets is the application selected
\* in the view.
C39_OverlayTargetsTheSelectedApp ==
    [][\A n \in OpenedFor :
           m'.apps # <<>> /\ n = SelectedApp(m').Name]_vars

\* --------------------------------------- typing a name in the delete modal

\* The delete modal over the applications a and ca: j moves the cursor,
\* and the letters c and a are pressed while the modal is open.
Delete2Keys == {"j", "ctrl+d", "enter", "esc"}

Delete2Backend == Backend({Snapshot1}, {FALSE}, {<<>>}, FALSE, {})

NextDelete2 ==
    \/ \E k \in Delete2Keys : KeyMsg(k, MaxInFlight)
    \/ \E k \in {"c", "a"} : m.deleteModal /\ KeyMsg(k, MaxInFlight)
    \/ Deliver(Delete2Backend, MaxInFlight)

SpecDelete2 == Init /\ [][NextDelete2]_vars

\* The Model after the characters of text were pressed one after another.
RECURSIVE TypeAll(_, _)
TypeAll(mm, text) ==
    IF text = <<>> THEN mm ELSE TypeAll(Update(mm, Key(Head(text))).m, Tail(text))

\* C40: for every application name, names with the letter c included,
\* typing the name one character at a time into the delete modal makes the
\* typed text equal to the name and leaves the cascade flag as it was.
C40_TypingTheNameTypesTheName ==
    (m.deleteModal /\ m.deleteInput.value = <<>>)
        => /\ TypeAll(m, m.deleteApp).deleteInput.value = m.deleteApp
           /\ TypeAll(m, m.deleteApp).deleteCascade = m.deleteCascade

====
